---- MODULE Spec2Model ----
(***************************************************************************)
(* The halo2 example circuits of halo-hero/examples, each run the way its  *)
(* main does (MockProver::run, then verify), next to the key-generation    *)
(* synthesis of its without_witnesses() copy.                              *)
(*                                                                         *)
(* A circuit is its columns, its gates and lookups (configure) and the     *)
(* regions its synthesize lays out.  The layouter and the validator of     *)
(* the halo2 library are modelled from the specification's sections 3, 4   *)
(* and 7; everything a circuit does is translated from its source file.    *)
(***************************************************************************)
EXTENDS Integers, Sequences, FiniteSets, TLC

\* ------------------------------------------------------------------------
\* The scalar field F.  The examples instantiate F with bn256::Fr; the model
\* runs them over a 25-bit prime field, in which every constant the examples
\* use (1337, 10000, the 16-bit range-checked values) is still a small
\* element.  P - 1 is not divisible by 5, as for Fr (x^5 is a permutation).
P == 33554393

\* F::from(n)
Fe(n) == n % P

FAdd(a, b) == (a + b) % P

FSub(a, b) == (a + P - b) % P

FNeg(a) == (P - a) % P

\* a * b mod P by Horner's rule on the base-32 digits of b: no intermediate
\* value leaves 32 bits.
RECURSIVE FMul(_, _)
FMul(a, b) == IF b = 0 THEN 0 ELSE (FMul(a, b \div 32) * 32 + a * (b % 32)) % P

RECURSIVE Pow2(_)
Pow2(n) == IF n = 0 THEN 1 ELSE 2 * Pow2(n - 1)

\* the number of binary digits of n
RECURSIVE NumBits(_)
NumBits(n) == IF n = 0 THEN 0 ELSE 1 + NumBits(n \div 2)

\* F::CAPACITY: every integer of that many bits is a scalar
CAPACITY == NumBits(P) - 1

SetMax(S) == IF S = {} THEN 0 ELSE CHOOSE x \in S : \A y \in S : y <= x

\* The function f, tabulated: TLC keeps [x \in S |-> e] as an expression and
\* evaluates e at each application until the function is compared.
Tabulate(f) == IF f = f THEN f ELSE f

\* ------------------------------------------------------------------------
\* Value<T>: Known(v) or Unknown.  map / and_then do not evaluate the
\* function on Unknown.
Unknown == <<>>

Known(v) == <<v>>

IsKnown(v) == v # <<>>

ValueMap(v, F(_)) == IF IsKnown(v) THEN Known(F(v[1])) ELSE Unknown

ValueZip(a, b) == IF IsKnown(a) /\ IsKnown(b) THEN Known(<<a[1], b[1]>>) ELSE Unknown

ValueMul(a, b) == ValueMap(ValueZip(a, b), LAMBDA p : FMul(p[1], p[2]))

ValueAdd(a, b) == ValueMap(ValueZip(a, b), LAMBDA p : FAdd(p[1], p[2]))

\* ------------------------------------------------------------------------
\* The grid: for each column the sequence of its cells, row r at index r+1.
\* A cell is <<>> while unassigned and <<v>> once assigned the Value v.
Unassigned == <<>>

Put(column, row, cell) ==
    LET padded == IF Len(column) > row THEN column
                  ELSE column \o [i \in 1..(row + 1 - Len(column)) |-> Unassigned]
    IN  [padded EXCEPT ![row + 1] = cell]

CellAt(grid, col, row) ==
    IF row < 0 \/ row >= Len(grid[col]) THEN Unassigned ELSE grid[col][row + 1]

\* What a query of (col, row) evaluates to in a gate or lookup: the cell's
\* scalar, and zero for a cell that holds none.
Query(grid, col, row) ==
    LET cell == CellAt(grid, col, row)
    IN  IF cell # Unassigned /\ IsKnown(cell[1]) THEN cell[1][1] ELSE 0

\* The rows the validator visits: every row that holds a cell outside the
\* lookup-table columns `tables`, and one of the empty rows that follow
\* them (they are all alike).
Rows(grid, tables) == 0..SetMax({Len(grid[col]) : col \in DOMAIN grid \ tables})

\* ------------------------------------------------------------------------
\* Region and layouter.  A region closure is the sequence of the operations
\* it performs, at offsets relative to the region; assign_region places the
\* region and performs them.  A cell reference is absolute, <<col, row>>,
\* or relative to the region being assigned, <<col, offset, "rel">>.
assign_advice(col, off, v) == [k |-> "advice", col |-> col, off |-> off, v |-> v, a |-> <<>>, b |-> <<>>]

assign_fixed(col, off, f) == [k |-> "fixed", col |-> col, off |-> off, v |-> Known(f), a |-> <<>>, b |-> <<>>]

enable(sel, off) == [k |-> "enable", col |-> sel, off |-> off, v |-> Known(1), a |-> <<>>, b |-> <<>>]

constrain_equal(a, b) == [k |-> "equal", col |-> "", off |-> 0, v |-> Unknown, a |-> a, b |-> b]

\* AssignedCell::copy_advice: assign the cell's value, then constrain the
\* new cell equal to the cell copied.
copy_advice(from, col, off) ==
    [k |-> "copy", col |-> col, off |-> off, v |-> from.value, a |-> <<col, off, "rel">>, b |-> from.cell]

Rel(col, off) == <<col, off, "rel">>

Resolve(ref, start) == IF Len(ref) = 3 THEN <<ref[1], start + ref[2]>> ELSE ref

\* The layouter of one synthesis: mode "keygen" (advice closures are never
\* called: every assigned advice value is Unknown) or "prove" (the
\* MockProver's pass for `phase`), with the challenge value of the run.
\* `second` are the advice columns allocated in SecondPhase.
NewLayouter(cols, second, mode, phase, chal) ==
    [grid |-> [col \in cols |-> <<>>], nxt |-> [col \in cols |-> 0],
     copies |-> {}, regions |-> <<>>, err |-> FALSE, panic |-> FALSE, second |-> second,
     mode |-> mode, phase |-> phase, chal |-> chal]

ColumnPhase(ly, col) == IF col \in ly.second THEN 1 ELSE 0

\* The columns a region uses and the number of rows it spans.
Writes(ops) == {j \in DOMAIN ops : ops[j].k # "equal"}

RegionColumns(ops) == {ops[j].col : j \in Writes(ops)}

RegionRows(ops) == SetMax({ops[j].off + 1 : j \in Writes(ops)})

\* A planner that places every region below all the rows in use
RegionStart_below(ly, ops) == SetMax({ly.nxt[col] : col \in DOMAIN ly.nxt})

\* SimpleFloorPlanner: a region starts at the first row that is free in
\* every column it uses, and takes its rows in each of them.
RegionStart(ly, ops) == SetMax({ly.nxt[col] : col \in RegionColumns(ops)})

\* The cell the region's operations leave at (col, off): the last write wins.
\* In keygen mode an advice closure is not called: the value is Unknown.
Written(ly, ops, col, off) ==
    LET js == {j \in Writes(ops) : ops[j].col = col /\ ops[j].off = off}
        op == ops[SetMax(js)]
    IN  IF js = {} THEN Unassigned
        ELSE IF op.k \in {"advice", "copy"} /\ ly.mode = "keygen" THEN <<Unknown>>
        ELSE <<op.v>>

\* The column after the region placed at `start`: its rows follow the rows
\* the column already holds.
Extend(ly, ops, col, start) ==
    LET old == ly.grid[col]
        rows == SetMax({ops[j].off + 1 : j \in {i \in Writes(ops) : ops[i].col = col}})
    IN  old \o [i \in 1..(start + rows - Len(old)) |->
                  IF Len(old) + i - 1 < start THEN Unassigned
                  ELSE Written(ly, ops, col, Len(old) + i - 1 - start)]

\* An advice column of the current phase cannot be assigned Unknown.
AssignFails(ly, ops) ==
    \E j \in Writes(ops) :
        /\ ops[j].k \in {"advice", "copy"}
        /\ ly.mode = "prove"
        /\ ~IsKnown(ops[j].v)
        /\ ColumnPhase(ly, ops[j].col) = ly.phase

assign_region(ly, name, ops) ==
    LET start == RegionStart(ly, ops)
        cols == RegionColumns(ops)
    IN  [ly EXCEPT
           !.nxt = Tabulate([col \in DOMAIN @ |->
                      IF col \in cols THEN start + RegionRows(ops) ELSE @[col]]),
           !.regions = Append(@, [name |-> name, start |-> start,
                                  rows |-> RegionRows(ops), columns |-> cols]),
           !.grid = Tabulate([col \in DOMAIN @ |->
                       IF col \in cols THEN Extend(ly, ops, col, start) ELSE @[col]]),
           !.copies = @ \cup {<<Resolve(ops[j].a, start), Resolve(ops[j].b, start)>> :
                                j \in {i \in DOMAIN ops : ops[i].k \in {"equal", "copy"}}},
           !.err = @ \/ AssignFails(ly, ops)]

\* The AssignedCell a region operation at (col, off) returns, for the region
\* assign_region(ly, ...) has just placed: its value is what the closure
\* returned, and Unknown when the closure was not called.
LastStart(ly) == ly.regions[Len(ly.regions)].start

Assigned(ly, col, off, v) ==
    [cell |-> <<col, LastStart(ly) + off>>,
     value |-> IF ly.mode = "keygen" THEN Unknown ELSE v]

\* assign_table: row i of `rows` (a function from table column to scalar)
\* is written at offset i of the table columns.
assign_table(ly, rows) ==
    [ly EXCEPT !.grid = [col \in DOMAIN @ |->
        IF Len(rows) > 0 /\ col \in DOMAIN rows[1]
        THEN [i \in 1..Len(rows) |-> <<Known(rows[i][col])>>]
        ELSE @[col]]]

\* constrain_instance(cell, instance column, row)
constrain_instance(ly, cell, col, row) == [ly EXCEPT !.copies = @ \cup {<<cell, <<col, row>>>>}]

\* get_challenge: Unknown until the challenge's phase has been committed.
get_challenge(ly) == IF ly.mode = "prove" /\ ly.phase > 0 THEN Known(ly.chal) ELSE Unknown

\* ------------------------------------------------------------------------
\* adder.rs
STEPS == 5

adder_columns == {"q_enable", "advice"}

\* gate "step" without its constant term
adder_step_no_one(q_enable, curr, next) == FMul(q_enable, FSub(curr, next))

\* the polynomial of gate "step"
adder_step(q_enable, curr, next) == FMul(q_enable, FAdd(FSub(curr, next), 1))

adder_configure(g, r) ==
    [gates |-> <<[name |-> "step", selector |-> Query(g, "q_enable", r),
                  polys |-> <<adder_step(Query(g, "q_enable", r), Query(g, "advice", r),
                                         Query(g, "advice", r + 1))>>]>>,
     lookups |-> <<>>]

RECURSIVE adder_steps(_, _)
adder_steps(values, i) ==
    IF i = STEPS THEN <<>>
    ELSE <<assign_advice("advice", i, ValueMap(values, LAMBDA vs : vs[i + 1])),
           enable("q_enable", i)>> \o adder_steps(values, i + 1)

adder_synthesize(values, ly) ==
    assign_region(ly, "steps",
        adder_steps(values, 0)
        \o <<assign_advice("advice", STEPS, ValueMap(values, LAMBDA vs : vs[STEPS + 1]))>>)

\* main: the witness start, start + 1, ... of STEPS + 1 values
RECURSIVE adder_main(_)
adder_main(values) ==
    IF Len(values) < STEPS + 1
    THEN adder_main(Append(values, FAdd(values[Len(values)], 1)))
    ELSE Known(values)

\* ------------------------------------------------------------------------
\* tiny-ram.rs: the automaton of the regular expression a+b+c
ST_A == 1

ST_B == 2

ST_C == 3

ST_START == ST_A

ST_DONE == 4

EOF == 65535

\* REGEX with 'b' in place of 'c' in the transition from ST_C
REGEX_no_c ==
    << <<ST_A, ST_A, <<97>>>>, <<ST_A, ST_B, <<97>>>>, <<ST_B, ST_B, <<98>>>>,
       <<ST_B, ST_C, <<98>>>>, <<ST_C, ST_DONE, <<98>>>>, <<ST_DONE, ST_DONE, <<>>>> >>

\* (state, next state, character read); a character is its code point
\* ('a' = 97, 'b' = 98, 'c' = 99) and None is <<>>
REGEX ==
    << <<ST_A, ST_A, <<97>>>>, <<ST_A, ST_B, <<97>>>>, <<ST_B, ST_B, <<98>>>>,
       <<ST_B, ST_C, <<98>>>>, <<ST_C, ST_DONE, <<99>>>>, <<ST_DONE, ST_DONE, <<>>>> >>

MAX_STR_LEN == 20

tinyram_columns ==
    {"q_regex", "q_match", "st", "ch", "fix_st", "tbl_st_cur", "tbl_st_nxt", "tbl_ch"}

\* lookup "step" reading the current state twice
tinyram_step_cur(en, st_cur, st_nxt, ch) == <<FMul(en, st_cur), FMul(en, st_cur), FMul(en, ch)>>

\* the input expressions of lookup "step"
tinyram_step(en, st_cur, st_nxt, ch) == <<FMul(en, st_cur), FMul(en, st_nxt), FMul(en, ch)>>

tinyram_configure(g, r) ==
    [gates |-> <<[name |-> "fix state", selector |-> Query(g, "q_match", r),
                  polys |-> <<FMul(Query(g, "q_match", r),
                                   FSub(Query(g, "st", r), Query(g, "fix_st", r)))>>]>>,
     lookups |-> <<[name |-> "step", enabled |-> Query(g, "q_regex", r),
                    inputs |-> tinyram_step(Query(g, "q_regex", r), Query(g, "st", r),
                                            Query(g, "st", r + 1), Query(g, "ch", r)),
                    table |-> <<"tbl_st_cur", "tbl_st_nxt", "tbl_ch">>, any |-> FALSE]>>]

\* the transition table without the row that accounts for q_regex = 0
tinyram_transitions_no_zero ==
    [i \in 1..Len(REGEX) |->
        [tbl_st_cur |-> Fe(REGEX[i][1]), tbl_st_nxt |-> Fe(REGEX[i][2]),
         tbl_ch |-> IF REGEX[i][3] # <<>> THEN Fe(REGEX[i][3][1]) ELSE Fe(EOF)]]

\* the rows assign_table writes: (0, 0, 0), then the transitions of REGEX
tinyram_transitions ==
    <<[tbl_st_cur |-> 0, tbl_st_nxt |-> 0, tbl_ch |-> 0]>>
    \o [i \in 1..Len(REGEX) |->
        [tbl_st_cur |-> Fe(REGEX[i][1]), tbl_st_nxt |-> Fe(REGEX[i][2]),
         tbl_ch |-> IF REGEX[i][3] # <<>> THEN Fe(REGEX[i][3][1]) ELSE Fe(EOF)]]

\* s.get(i).unwrap_or(d), i counted from 0
GetOr(s, i, d) == IF i < Len(s) THEN s[i + 1] ELSE d

RECURSIVE tinyram_steps(_, _)
tinyram_steps(w, i) ==
    IF i = MAX_STR_LEN THEN <<>>
    ELSE <<enable("q_regex", i),
           assign_advice("st", i, ValueMap(w.sts, LAMBDA s : Fe(GetOr(s, i, ST_DONE)))),
           assign_advice("ch", i, ValueMap(w.str, LAMBDA s : Fe(GetOr(s, i, EOF))))>>
         \o tinyram_steps(w, i + 1)

tinyram_synthesize(w, ly) ==
    assign_region(assign_table(ly, tinyram_transitions), "regex",
        <<assign_fixed("fix_st", 0, Fe(ST_START)), enable("q_match", 0)>>
        \o tinyram_steps(w, 0)
        \o <<assign_advice("st", MAX_STR_LEN, Known(Fe(ST_DONE))),
             assign_fixed("fix_st", MAX_STR_LEN, Fe(ST_DONE)),
             enable("q_match", MAX_STR_LEN)>>)

\* main: the string "aaabbbc" and its trace
tinyram_main ==
    [str |-> Known(<<97, 97, 97, 98, 98, 98, 99>>),
     sts |-> Known(<<ST_A, ST_A, ST_A, ST_B, ST_B, ST_B, ST_C, ST_DONE>>)]

\* ------------------------------------------------------------------------
\* session-9.rs: range checks by limb decomposition, and a read-write table
\* whose consecutive keys are range-checked.  TestConfig instantiates
\* RangeTable<F, 8> and RangeConfig<F, 8, 8>; the model keeps BITS = 8 and
\* takes LIMBS limbs, so that the 64-bit keys of the source are
\* BITS * LIMBS bits wide and its 32-bit addresses and counters half of that.
BITS == 8

LIMBS == 2

ROWS == 4

\* the width of u64, and of u32
KeyBits == BITS * LIMBS

HalfBits == KeyBits \div 2

limb(i) == "limb" \o ToString(i)

session9_columns ==
    {"value", "range", "q_enable", "rw_q_enable", "addr", "val_old", "val_new",
     "rw_counter", "is_write", "delta"} \cup {limb(i) : i \in 0..(LIMBS - 1)}

\* RangeTable::load writing the values 0..2^BITS
RangeTable_load_inclusive(ly) == assign_table(ly, [i \in 1..(Pow2(BITS) + 1) |-> [range |-> Fe(i - 1)]])

\* RangeTable::load: the values 0..2^BITS - 1 at offsets 0..2^BITS - 1
RangeTable_load(ly) == assign_table(ly, [i \in 1..Pow2(BITS) |-> [range |-> Fe(i - 1)]])

\* combine = 2^0 * limbs[0] + 2^BITS * limbs[1] + ..., from limb i on
RECURSIVE RangeConfig_combine(_, _, _, _)
RangeConfig_combine(g, r, i, power) ==
    IF i = LIMBS THEN 0
    ELSE FAdd(FMul(power, Query(g, limb(i), r)),
              RangeConfig_combine(g, r, i + 1, FMul(power, Fe(Pow2(BITS)))))

\* gate "delta_gate"
StateConfig_delta_gate(q_enable, delta, addr_cur, addr_nxt, rw_cur, rw_nxt) ==
    LET key_cur == FAdd(FMul(Fe(Pow2(HalfBits)), addr_cur), rw_cur)
        key_nxt == FAdd(FMul(Fe(Pow2(HalfBits)), addr_nxt), rw_nxt)
    IN  FMul(q_enable, FSub(delta, FSub(key_nxt, key_cur)))

session9_configure(g, r) ==
    [gates |->
       <<[name |-> "combine", selector |-> Query(g, "q_enable", r),
          polys |-> <<FMul(FSub(RangeConfig_combine(g, r, 0, 1), Query(g, "value", r)),
                           Query(g, "q_enable", r))>>],
         [name |-> "delta_gate", selector |-> Query(g, "rw_q_enable", r),
          polys |-> <<StateConfig_delta_gate(Query(g, "rw_q_enable", r), Query(g, "delta", r),
                          Query(g, "addr", r), Query(g, "addr", r + 1),
                          Query(g, "rw_counter", r), Query(g, "rw_counter", r + 1))>>]>>,
     lookups |->
       [i \in 1..LIMBS |->
          [name |-> "lookup_limb", enabled |-> Query(g, "q_enable", r),
           inputs |-> <<FMul(Query(g, "q_enable", r), Query(g, limb(i - 1), r))>>,
           table |-> <<"range">>, any |-> FALSE]]]

\* bit i of the little-endian bits of scalar v
LeBit(v, i) == (v \div Pow2(i)) % 2

\* limbs read most significant chunk first
RECURSIVE RangeConfig_limb_be(_, _, _)
RangeConfig_limb_be(v, k, i) ==
    IF i = BITS THEN 0
    ELSE (IF LeBit(v, (LIMBS - 1 - k) * BITS + i) = 1 THEN Pow2(i) ELSE 0)
         + RangeConfig_limb_be(v, k, i + 1)

\* limb k of v, from bit i of its chunk on: v += 1 << i for every set bit
RECURSIVE RangeConfig_limb(_, _, _)
RangeConfig_limb(v, k, i) ==
    IF i = BITS THEN 0
    ELSE (IF LeBit(v, k * BITS + i) = 1 THEN Pow2(i) ELSE 0) + RangeConfig_limb(v, k, i + 1)

\* RangeConfig::check
RangeConfig_check(ly, value) ==
    LET limbs == ValueMap(value.value,
                     LAMBDA v : [k \in 1..LIMBS |-> Fe(RangeConfig_limb(v, k - 1, 0))])
        checked == assign_region(ly, "check_range",
                       <<enable("q_enable", 0), copy_advice(value, "value", 0)>>
                       \o [i \in 1..LIMBS |->
                             assign_advice(limb(i - 1), 0, ValueMap(limbs, LAMBDA l : l[i]))])
    IN  IF BITS * LIMBS <= CAPACITY THEN checked ELSE [ly EXCEPT !.panic = TRUE]

\* RwRow::key
RwRow_key(row) == row.addr * Pow2(HalfBits) + row.rw_counter

wrapping_sub(a, b) == (a + Pow2(KeyBits) - b) % Pow2(KeyBits)

\* RwTable::assign_with_region
RwTable_assign_with_region(rows) ==
    [j \in 1..(5 * ROWS) |->
        LET i == (j - 1) \div 5
        IN  CASE (j - 1) % 5 = 0 -> assign_advice("addr", i, ValueMap(rows, LAMBDA m : Fe(m[i + 1].addr)))
              [] (j - 1) % 5 = 1 -> assign_advice("rw_counter", i, ValueMap(rows, LAMBDA m : Fe(m[i + 1].rw_counter)))
              [] (j - 1) % 5 = 2 -> assign_advice("val_old", i, ValueMap(rows, LAMBDA m : m[i + 1].val_old))
              [] (j - 1) % 5 = 3 -> assign_advice("val_new", i, ValueMap(rows, LAMBDA m : m[i + 1].val_new))
              [] (j - 1) % 5 = 4 -> assign_advice("is_write", i,
                                       ValueMap(rows, LAMBDA m : IF m[i + 1].is_write THEN 1 ELSE 0))]
    \o [i \in 1..(ROWS - 1) |-> enable("rw_q_enable", i - 1)]

\* the range checks of the delta cells i..ROWS - 2
RECURSIVE StateConfig_checks(_, _, _, _)
StateConfig_checks(ly, start, deltas, i) ==
    IF i = ROWS - 1 THEN ly
    ELSE StateConfig_checks(
             RangeConfig_check(ly, [cell |-> <<"delta", start + i>>,
                                    value |-> IF ly.mode = "keygen" THEN Unknown
                                              ELSE ValueMap(deltas, LAMBDA m : Fe(m[i + 1]))]),
             start, deltas, i + 1)

\* StateConfig::assign
StateConfig_assign(rows, ly) ==
    LET deltas == ValueMap(rows, LAMBDA m :
                      [i \in 1..(Len(m) - 1) |-> wrapping_sub(RwRow_key(m[i + 1]), RwRow_key(m[i]))])
        state == assign_region(ly, "state",
                     RwTable_assign_with_region(rows)
                     \o [i \in 1..(ROWS - 1) |->
                           assign_advice("delta", i - 1, ValueMap(deltas, LAMBDA m : Fe(m[i])))])
    IN  StateConfig_checks(state, LastStart(state), deltas, 0)

session9_synthesize(rw_table, ly) ==
    LET test == assign_region(RangeTable_load(ly), "test",
                    <<assign_advice("value", 0, Known(Fe(10000)))>>)
        free == Assigned(test, "value", 0, Known(Fe(10000)))
    IN  StateConfig_assign(rw_table, RangeConfig_check(test, free))

\* main: the four rows of the read-write table
session9_main ==
    Known(<<[addr |-> 0, val_old |-> 0, val_new |-> 1, rw_counter |-> 0, is_write |-> TRUE],
            [addr |-> 0, val_old |-> 1, val_new |-> 1, rw_counter |-> 2, is_write |-> FALSE],
            [addr |-> 1, val_old |-> 0, val_new |-> 2, rw_counter |-> 1, is_write |-> TRUE],
            [addr |-> 2, val_old |-> 0, val_new |-> 3, rw_counter |-> 3, is_write |-> TRUE]>>)

\* ------------------------------------------------------------------------
\* ex-suduko.rs
DIM == 9

SQR == 3

SUDUKO ==
    << <<5, 3, 0, 0, 7, 0, 0, 0, 0>>,
       <<6, 0, 0, 1, 9, 5, 0, 0, 0>>,
       <<0, 9, 8, 0, 0, 0, 0, 6, 0>>,
       <<8, 0, 0, 0, 6, 0, 0, 0, 3>>,
       <<4, 0, 0, 8, 0, 3, 0, 0, 1>>,
       <<7, 0, 0, 0, 2, 0, 0, 0, 6>>,
       <<0, 6, 0, 0, 0, 0, 2, 8, 0>>,
       <<0, 0, 0, 4, 1, 9, 0, 0, 5>>,
       <<0, 0, 0, 0, 8, 0, 0, 7, 9>> >>

\* main: the solution of SUDUKO
SOLUTION ==
    << <<5, 3, 4, 6, 7, 8, 9, 1, 2>>,
       <<6, 7, 2, 1, 9, 5, 3, 4, 8>>,
       <<1, 9, 8, 3, 4, 2, 5, 6, 7>>,
       <<8, 5, 9, 7, 6, 1, 4, 2, 3>>,
       <<4, 2, 6, 8, 5, 3, 7, 9, 1>>,
       <<7, 1, 3, 9, 2, 4, 8, 5, 6>>,
       <<9, 6, 1, 5, 3, 7, 2, 8, 4>>,
       <<2, 8, 7, 4, 1, 9, 6, 3, 5>>,
       <<3, 4, 5, 2, 8, 6, 1, 7, 9>> >>

sudoku_columns ==
    {"w0", "w1", "w2", "c0", "c1", "c2", "cm", "cc", "q_arith",
     "w0_phase2", "w1_phase2", "w2_phase2", "q_arith_phase2", "q_challenge"}

\* The two ArithmeticChips of configure: they share the fixed columns and
\* each has its own selector and advice columns.
phase1_chip == [w0 |-> "w0", w1 |-> "w1", w2 |-> "w2", q_arith |-> "q_arith"]

phase2_chip ==
    [w0 |-> "w0_phase2", w1 |-> "w1_phase2", w2 |-> "w2_phase2", q_arith |-> "q_arith_phase2"]

\* the polynomial of gate "arith"
ArithmeticChip_arith(q_arith, w0, w1, w2, c0, c1, c2, cm, cc) ==
    FMul(q_arith,
         FAdd(FAdd(FAdd(FAdd(FMul(c0, w0), FMul(c1, w1)), FMul(c2, w2)),
                   FMul(cm, FMul(w0, w1))), cc))

ArithmeticChip_configure(chip, g, r) ==
    [name |-> "arith", selector |-> Query(g, chip.q_arith, r),
     polys |-> <<ArithmeticChip_arith(Query(g, chip.q_arith, r),
                     Query(g, chip.w0, r), Query(g, chip.w1, r), Query(g, chip.w2, r),
                     Query(g, "c0", r), Query(g, "c1", r), Query(g, "c2", r),
                     Query(g, "cm", r), Query(g, "cc", r))>>]

\* the polynomial of gate "eq_challenge"
ChallengeChip_eq_challenge(q_challenge, advice, challenge) == FMul(q_challenge, FSub(advice, challenge))

ChallengeChip_configure(g, r, chal) ==
    [name |-> "eq_challenge", selector |-> Query(g, "q_challenge", r),
     polys |-> <<ChallengeChip_eq_challenge(Query(g, "q_challenge", r),
                                            Query(g, "w0_phase2", r), chal)>>]

sudoku_configure(g, r, chal) ==
    [gates |-> <<ArithmeticChip_configure(phase1_chip, g, r),
                 ArithmeticChip_configure(phase2_chip, g, r),
                 ChallengeChip_configure(g, r, chal)>>,
     lookups |-> <<>>]

\* Variable: the linear form mul * val + add of an assigned cell
Variable(mul, add, val) == [mul |-> mul, add |-> add, val |-> val]

Variable_value(var) == ValueMap(var.val.value, LAMBDA v : FAdd(FMul(var.mul, v), var.add))

Variable_neg(var) == [var EXCEPT !.mul = FNeg(@), !.add = FNeg(@)]

\* The regions of the chip operations.  Each is the name of the region, the
\* operations of its closure, and the column and value of the cell its
\* Variable refers to (mul = 1, add = 0).
ArithmeticChip_fixed(c0, c1, c2, cc, cm) ==
    <<assign_fixed("c0", 0, c0), assign_fixed("c1", 0, c1), assign_fixed("c2", 0, c2),
      assign_fixed("cc", 0, cc), assign_fixed("cm", 0, cm)>>

ArithmeticChip_mul(chip, lhs, rhs) ==
    [name |-> "mul", col |-> chip.w2, v |-> ValueMul(Variable_value(lhs), Variable_value(rhs)),
     ops |-> <<enable(chip.q_arith, 0),
               copy_advice(lhs.val, chip.w0, 0),
               copy_advice(rhs.val, chip.w1, 0),
               assign_advice(chip.w2, 0, ValueMul(Variable_value(lhs), Variable_value(rhs)))>>
             \o ArithmeticChip_fixed(FMul(lhs.mul, rhs.add), FMul(rhs.mul, lhs.add), FNeg(1),
                                     FMul(lhs.add, rhs.add), FMul(lhs.mul, rhs.mul))]

ArithmeticChip_add(chip, lhs, rhs) ==
    [name |-> "add", col |-> chip.w2, v |-> ValueAdd(Variable_value(lhs), Variable_value(rhs)),
     ops |-> <<enable(chip.q_arith, 0),
               copy_advice(lhs.val, chip.w0, 0),
               copy_advice(rhs.val, chip.w1, 0),
               assign_advice(chip.w2, 0, ValueAdd(Variable_value(lhs), Variable_value(rhs)))>>
             \o ArithmeticChip_fixed(lhs.mul, rhs.mul, FNeg(1), FAdd(lhs.add, rhs.add), 0)]

\* sub that adds the right-hand side as it is
ArithmeticChip_sub_plus(chip, lhs, rhs) == ArithmeticChip_add(chip, lhs, rhs)

ArithmeticChip_sub(chip, lhs, rhs) == ArithmeticChip_add(chip, lhs, Variable_neg(rhs))

ArithmeticChip_free(chip, value) ==
    [name |-> "free", col |-> chip.w0, v |-> value,
     ops |-> <<assign_advice(chip.w0, 0, value),
               assign_advice(chip.w1, 0, Known(0)),
               assign_advice(chip.w2, 0, Known(0))>>]

ArithmeticChip_constant(chip, constant) ==
    [name |-> "constant", col |-> chip.w0, v |-> Known(constant),
     ops |-> <<enable(chip.q_arith, 0),
               assign_advice(chip.w0, 0, Known(constant)),
               assign_advice(chip.w1, 0, Known(0)),
               assign_advice(chip.w2, 0, Known(0))>>
             \o ArithmeticChip_fixed(1, 0, 0, FNeg(constant), 0)]

\* eq returns no Variable: col and v are those of its junk cell
ArithmeticChip_eq_unchecked(chip, lhs, rhs) ==
    [name |-> "eq", col |-> chip.w2, v |-> Known(0),
     ops |-> <<enable(chip.q_arith, 0),
               copy_advice(lhs.val, chip.w0, 0),
               copy_advice(rhs.val, chip.w1, 0),
               assign_advice(chip.w2, 0, Known(0))>>
             \o ArithmeticChip_fixed(0, 0, 0, 0, 0)]

ArithmeticChip_eq(chip, lhs, rhs) ==
    [name |-> "eq", col |-> chip.w2, v |-> Known(0),
     ops |-> <<enable(chip.q_arith, 0),
               copy_advice(lhs.val, chip.w0, 0),
               copy_advice(rhs.val, chip.w1, 0),
               assign_advice(chip.w2, 0, Known(0))>>
             \o ArithmeticChip_fixed(lhs.mul, FNeg(rhs.mul), 0, FSub(lhs.add, rhs.add), 0)]

ChallengeChip_challenge(ly) ==
    [name |-> "challenge", col |-> "w0_phase2", v |-> get_challenge(ly),
     ops |-> <<enable("q_challenge", 0), assign_advice("w0_phase2", 0, get_challenge(ly))>>]

\* synthesize, unrolled: the sequence of the chip operations it performs.
\* An operation names its operands by the position in the sequence of the
\* operation that returned them.
Op(op, chip, lhs, rhs, k, v) == [op |-> op, chip |-> chip, lhs |-> lhs, rhs |-> rhs, k |-> k, v |-> v]

\* cells[i][j] is returned by operation Cell(i, j)
Cell(i, j) == DIM * i + j + 1

\* a free variable for each cell to solve, a constant for each given cell
sudoku_cells(suduko, solution) ==
    [n \in 1..(DIM * DIM) |->
        LET i == (n - 1) \div DIM
            j == (n - 1) % DIM
        IN  IF suduko[i + 1][j + 1] = 0
            THEN Op("free", phase1_chip, 0, 0, 0,
                    ValueMap(solution, LAMBDA sol : Fe(sol[i + 1][j + 1])))
            ELSE Op("constant", phase1_chip, 0, 0, Fe(suduko[i + 1][j + 1]), Unknown)]

\* the sets that must hold distinct numbers: rows, columns, blocks
sudoku_distinct ==
    [i \in 1..DIM |-> [j \in 1..DIM |-> Cell(i - 1, j - 1)]]
    \o [j \in 1..DIM |-> [i \in 1..DIM |-> Cell(i - 1, j - 1)]]
    \o [b \in 1..((DIM \div SQR) * (DIM \div SQR)) |->
          [n \in 1..(SQR * SQR) |->
              Cell(((b - 1) \div (DIM \div SQR)) * SQR + ((n - 1) \div SQR),
                   ((b - 1) % (DIM \div SQR)) * SQR + ((n - 1) % SQR))]]

\* eval_vanish, its first operation at position `first`: poly = 1, then for
\* each term mono = term - alpha and poly = poly * mono
eval_vanish(first, alpha, terms) ==
    [n \in 1..(2 * Len(terms) + 1) |->
        IF n = 1 THEN Op("constant", phase2_chip, 0, 0, 1, Unknown)
        ELSE IF n % 2 = 0 THEN Op("sub", phase2_chip, terms[n \div 2], alpha, 0, Unknown)
        ELSE Op("mul", phase2_chip, first + n - 3, first + n - 2, 0, Unknown)]

sudoku_program(suduko, solution) ==
    LET alpha == DIM * DIM + 1
        numbers == [n \in 1..DIM |-> alpha + n]
        known == alpha + DIM + 1
        eval_known == known + 2 * DIM
        check(k) == eval_known + (k - 1) * (2 * DIM + 2) + 1
    IN  sudoku_cells(suduko, solution)
        \o <<Op("challenge", phase2_chip, 0, 0, 0, Unknown)>>
        \o [n \in 1..DIM |-> Op("constant", phase2_chip, 0, 0, Fe(n), Unknown)]
        \o eval_vanish(known, alpha, numbers)
        \o [n \in 1..(Len(sudoku_distinct) * (2 * DIM + 2)) |->
              LET k == ((n - 1) \div (2 * DIM + 2)) + 1
                  m == ((n - 1) % (2 * DIM + 2)) + 1
              IN  IF m = 2 * DIM + 2
                  THEN Op("eq", phase2_chip, eval_known, check(k) + 2 * DIM, 0, Unknown)
                  ELSE eval_vanish(check(k), alpha, sudoku_distinct[k])[m]]

\* one chip operation: its region is assigned and its Variable recorded
sudoku_step(st, ins) ==
    LET lhs == st.vars[ins.lhs]
        rhs == st.vars[ins.rhs]
        reg == CASE ins.op = "free" -> ArithmeticChip_free(ins.chip, ins.v)
                 [] ins.op = "constant" -> ArithmeticChip_constant(ins.chip, ins.k)
                 [] ins.op = "challenge" -> ChallengeChip_challenge(st.ly)
                 [] ins.op = "sub" -> ArithmeticChip_sub(ins.chip, lhs, rhs)
                 [] ins.op = "mul" -> ArithmeticChip_mul(ins.chip, lhs, rhs)
                 [] ins.op = "eq" -> ArithmeticChip_eq(ins.chip, lhs, rhs)
        ly == assign_region(st.ly, reg.name, reg.ops)
    IN  [ly |-> ly, vars |-> Append(st.vars, Variable(1, 0, Assigned(ly, reg.col, 0, reg.v)))]

\* the operations lo..hi of the program, in order; an operation that fails
\* ends synthesize
RECURSIVE sudoku_run(_, _, _, _)
sudoku_run(st, program, lo, hi) ==
    IF lo > hi THEN st
    ELSE IF lo = hi THEN sudoku_step(st, program[lo])
    ELSE LET mid == (lo + hi) \div 2
             half == sudoku_run(st, program, lo, mid)
         IN  IF half.ly.err THEN half ELSE sudoku_run(half, program, mid + 1, hi)

sudoku_synthesize(w, ly) ==
    LET program == sudoku_program(w.suduko, w.solutation)
    IN  sudoku_run([ly |-> ly, vars |-> <<>>], program, 1, Len(program)).ly

sudoku_main == [suduko |-> SUDUKO, solutation |-> Known(SOLUTION)]

\* ------------------------------------------------------------------------
\* session-5.rs: a read-only memory looked up with lookup_any
MAX_MEMORY == 5

session5_columns == {"adv1", "adv2", "idx", "arr", "flag", "rom_enable"}

\* RomChip::configure(meta, rom, adv1, adv2): the chip's output column is
\* adv1 and its input column adv2
RomChip_output == "adv1"

RomChip_input == "adv2"

\* the input expressions of "ROM lookup" and the table expressions
\* (flag, idx, arr) they are looked up in
RomChip_lookup(enabled, input, output) == <<enabled, FMul(enabled, input), FMul(enabled, output)>>

session5_configure(g, r) ==
    [gates |-> <<>>,
     lookups |-> <<[name |-> "ROM lookup", enabled |-> Query(g, "rom_enable", r),
                    inputs |-> RomChip_lookup(Query(g, "rom_enable", r),
                                   Query(g, RomChip_input, r), Query(g, RomChip_output, r)),
                    table |-> <<"flag", "idx", "arr">>, any |-> TRUE]>>]

RomTable_assign_row(i, on, idx, arr) ==
    <<assign_fixed("idx", i, idx), assign_advice("arr", i, arr),
      assign_fixed("flag", i, IF on THEN 1 ELSE 0)>>

RECURSIVE RomTable_rows(_, _)
RomTable_rows(memory, i) ==
    IF i = MAX_MEMORY THEN <<>>
    ELSE RomTable_assign_row(i, TRUE, Fe(i), ValueMap(memory, LAMBDA m : m[i + 1]))
         \o RomTable_rows(memory, i + 1)

\* populate with the padding row switched on
RomTable_populate_padding_on(ly, memory) ==
    LET rows == RomTable_rows(memory, 0) \o RomTable_assign_row(MAX_MEMORY, TRUE, 0, Known(0))
    IN  [assign_region(ly, "memory", rows)
            EXCEPT !.panic = @ \/ (IsKnown(memory) /\ Len(memory[1]) # MAX_MEMORY)]

\* RomTable::populate; assert_if_known panics on a memory of another length
RomTable_populate(ly, memory) ==
    LET rows == RomTable_rows(memory, 0) \o RomTable_assign_row(MAX_MEMORY, FALSE, 0, Known(0))
    IN  [assign_region(ly, "memory", rows)
            EXCEPT !.panic = @ \/ (IsKnown(memory) /\ Len(memory[1]) # MAX_MEMORY)]

\* free_index with the lookup of the chip enabled on its row
session5_free_index_enabled(idx) ==
    <<enable("rom_enable", 0), assign_advice("adv1", 0, ValueMap(idx, LAMBDA i : Fe(i)))>>

\* TestConfig::free_index
session5_free_index(idx) == <<assign_advice("adv1", 0, ValueMap(idx, LAMBDA i : Fe(i)))>>

\* RomChip::get: the index is copied, the output is m[i]
RomChip_get(rom, input) ==
    <<enable("rom_enable", 0),
      copy_advice(input.assigned, RomChip_input, 0),
      assign_advice(RomChip_output, 0,
          IF IsKnown(input.value) /\ IsKnown(rom) THEN Known(rom[1][input.value[1] + 1])
          ELSE Unknown)>>

session5_synthesize(rom, ly) ==
    LET ly1 == RomTable_populate(ly, rom)
        ly2 == assign_region(ly1, "index", session5_free_index(Known(1)))
        idx1 == [assigned |-> Assigned(ly2, "adv1", 0, Known(Fe(1))), value |-> Known(1)]
        ly3 == assign_region(ly2, "index", session5_free_index(Known(1)))
    IN  assign_region(ly3, "get", RomChip_get(rom, idx1))

\* main: "Hello", padded with zeros to MAX_MEMORY characters
session5_main == Known(<<72, 101, 108, 108, 111>>)

\* ------------------------------------------------------------------------
\* chips.rs: an arithmetic chip with an addition and a multiplication gate
chips_columns == {"w0", "w1", "w2", "q_mul", "q_add"}

\* gate "add" without its selector
chips_add_gate_always(q_add, w0, w1, w2) == FSub(FAdd(w0, w1), w2)

\* gate "add"
chips_add_gate(q_add, w0, w1, w2) == FMul(q_add, FSub(FAdd(w0, w1), w2))

\* gate "mul"
chips_mul_gate(q_mul, w0, w1, w2) == FMul(q_mul, FSub(FMul(w0, w1), w2))

chips_configure(g, r) ==
    [gates |-> <<[name |-> "add", selector |-> Query(g, "q_add", r),
                  polys |-> <<chips_add_gate(Query(g, "q_add", r), Query(g, "w0", r),
                                             Query(g, "w1", r), Query(g, "w2", r))>>],
                 [name |-> "mul", selector |-> Query(g, "q_mul", r),
                  polys |-> <<chips_mul_gate(Query(g, "q_mul", r), Query(g, "w0", r),
                                             Query(g, "w1", r), Query(g, "w2", r))>>]>>,
     lookups |-> <<>>]

\* ArithmeticChip::mul
chips_mul(lhs, rhs) ==
    <<assign_advice("w0", 0, lhs.value), assign_advice("w1", 0, rhs.value),
      assign_advice("w2", 0, ValueMul(lhs.value, rhs.value)), enable("q_mul", 0),
      constrain_equal(Rel("w0", 0), lhs.cell), constrain_equal(Rel("w1", 0), rhs.cell)>>

\* ArithmeticChip::add
chips_add(lhs, rhs) ==
    <<assign_advice("w0", 0, lhs.value), assign_advice("w1", 0, rhs.value),
      assign_advice("w2", 0, ValueAdd(lhs.value, rhs.value)), enable("q_add", 0),
      constrain_equal(Rel("w0", 0), lhs.cell), constrain_equal(Rel("w1", 0), rhs.cell)>>

\* free assigning its cell only when the value is known
chips_free_known(value) == IF IsKnown(value) THEN <<assign_advice("w0", 0, value)>> ELSE <<>>

\* ArithmeticChip::free
chips_free(value) == <<assign_advice("w0", 0, value)>>

\* a1 = secret, a2 = a1 * a1, a3 = a1 + a2
chips_synthesize(secret, ly) ==
    LET ly1 == assign_region(ly, "free", chips_free(secret))
        a1 == Assigned(ly1, "w0", 0, secret)
        ly2 == assign_region(ly1, "mul", chips_mul(a1, a1))
        a2 == Assigned(ly2, "w2", 0, ValueMul(a1.value, a1.value))
    IN  assign_region(ly2, "add", chips_add(a1, a2))

chips_main == Known(Fe(1337))

\* ------------------------------------------------------------------------
\* equality.rs: a gate over three rows of one advice column
equality_columns == {"q_enable", "advice"}

\* gate "vertical-mul"
equality_vertical_mul(q_enable, w0, w1, w3) == FMul(q_enable, FSub(FMul(w0, w1), w3))

equality_configure(g, r) ==
    [gates |-> <<[name |-> "vertical-mul", selector |-> Query(g, "q_enable", r),
                  polys |-> <<equality_vertical_mul(Query(g, "q_enable", r),
                                  Query(g, "advice", r), Query(g, "advice", r + 1),
                                  Query(g, "advice", r + 2))>>]>>,
     lookups |-> <<>>]

\* TestCircuit::mul: a region of 3 rows
equality_mul_crossed(lhs, rhs) ==
    <<assign_advice("advice", 0, lhs.value), assign_advice("advice", 1, rhs.value),
      assign_advice("advice", 2, ValueMul(lhs.value, rhs.value)), enable("q_enable", 0),
      constrain_equal(Rel("advice", 0), rhs.cell), constrain_equal(Rel("advice", 1), lhs.cell)>>

equality_mul(lhs, rhs) ==
    <<assign_advice("advice", 0, lhs.value), assign_advice("advice", 1, rhs.value),
      assign_advice("advice", 2, ValueMul(lhs.value, rhs.value)), enable("q_enable", 0),
      constrain_equal(Rel("advice", 0), lhs.cell), constrain_equal(Rel("advice", 1), rhs.cell)>>

\* TestCircuit::unconstrained: a region of 1 row
equality_unconstrained(value) == <<assign_advice("advice", 0, value)>>

\* a = secret, a2 = a * a, a3 = a2 * a, a5 = a3 * a2
equality_synthesize(secret, ly) ==
    LET ly1 == assign_region(ly, "free variable", equality_unconstrained(secret))
        a == Assigned(ly1, "advice", 0, secret)
        ly2 == assign_region(ly1, "mul", equality_mul(a, a))
        a2 == Assigned(ly2, "advice", 2, ValueMul(a.value, a.value))
        ly3 == assign_region(ly2, "mul", equality_mul(a2, a))
        a3 == Assigned(ly3, "advice", 2, ValueMul(a2.value, a.value))
    IN  assign_region(ly3, "mul", equality_mul(a3, a2))

equality_main == Known(Fe(1337))

\* ------------------------------------------------------------------------
\* instances.rs: a Fibonacci sequence with public start, result and length
fib_STEPS == 30

instances_columns == {"fib", "flag", "index", "q_fib", "instance"}

\* the polynomials of gate "fibonacci"
instances_fibonacci(q_fib, idx0, idx1, w0, w1, w2, bit) ==
    LET not_bit == FSub(1, bit)
    IN  <<FMul(FMul(q_fib, bit), not_bit),
          FMul(FMul(q_fib, bit), FSub(FAdd(w0, w1), w2)),
          FMul(FMul(q_fib, bit), FSub(FSub(idx1, idx0), 1)),
          FMul(FMul(q_fib, not_bit), FSub(w1, w2)),
          FMul(FMul(q_fib, not_bit), FSub(idx1, idx0))>>

instances_configure(g, r) ==
    [gates |-> <<[name |-> "fibonacci", selector |-> Query(g, "q_fib", r),
                  polys |-> instances_fibonacci(Query(g, "q_fib", r),
                                Query(g, "index", r), Query(g, "index", r + 1),
                                Query(g, "fib", r), Query(g, "fib", r + 1), Query(g, "fib", r + 2),
                                Query(g, "flag", r))]>>,
     lookups |-> <<>>]

\* region "fibonacci-steps": for each step the selector, the value, the
\* flag and the index, then the last index and the last two values
instances_steps(w) ==
    [n \in 1..(4 * fib_STEPS) |->
        LET i == (n - 1) \div 4
        IN  CASE n % 4 = 1 -> enable("q_fib", i)
              [] n % 4 = 2 -> assign_advice("fib", i, ValueMap(w.fib_seq, LAMBDA v : v[i + 1]))
              [] n % 4 = 3 -> assign_advice("flag", i,
                                  ValueMap(w.flg_seq, LAMBDA v : IF v[i + 1] THEN 1 ELSE 0))
              [] OTHER -> assign_advice("index", i, ValueMap(w.idx_seq, LAMBDA v : Fe(v[i + 1])))]
    \o <<assign_advice("index", fib_STEPS, ValueMap(w.idx_seq, LAMBDA v : Fe(v[fib_STEPS + 1]))),
         assign_advice("fib", fib_STEPS, ValueMap(w.fib_seq, LAMBDA v : v[fib_STEPS + 1])),
         assign_advice("fib", fib_STEPS + 1, ValueMap(w.fib_seq, LAMBDA v : v[fib_STEPS + 2]))>>

\* the cells exposed: start fib0, start fib1, start idx0, end fib, end idx
instances_cells(start) ==
    <<<<"fib", start>>, <<"fib", start + 1>>, <<"index", start>>,
      <<"fib", start + fib_STEPS + 1>>, <<"index", start + fib_STEPS>>>>

instances_synthesize(w, ly) ==
    LET ly1 == assign_region(ly, "fibonacci-steps", instances_steps(w))
        cells == instances_cells(LastStart(ly1))
    IN  [ly1 EXCEPT !.copies = @ \cup {<<cells[i], <<"instance", i - 1>>>> : i \in DOMAIN cells}]

\* main: the witness of fib_steps Fibonacci steps from (start0, start1),
\* padded to fib_STEPS, and the public inputs of the run
RECURSIVE instances_witness(_, _, _)
instances_witness(fib_steps, idx, w) ==
    IF idx > fib_STEPS THEN w
    ELSE LET n == Len(w.fib_seq)
         IN  instances_witness(fib_steps, idx + 1,
                 IF idx <= fib_steps
                 THEN [fib_seq |-> Append(w.fib_seq, FAdd(w.fib_seq[n - 1], w.fib_seq[n])),
                       flg_seq |-> Append(w.flg_seq, TRUE),
                       idx_seq |-> Append(w.idx_seq, idx)]
                 ELSE [fib_seq |-> Append(w.fib_seq, w.fib_seq[n]),
                       flg_seq |-> Append(w.flg_seq, FALSE),
                       idx_seq |-> Append(w.idx_seq, w.idx_seq[Len(w.idx_seq)])])

instances_main(fib_steps, start0, start1) ==
    LET w == instances_witness(fib_steps, 1,
                 [fib_seq |-> <<start0, start1>>, flg_seq |-> <<>>, idx_seq |-> <<0>>])
    IN  [fib_seq |-> Known(w.fib_seq), flg_seq |-> Known(w.flg_seq), idx_seq |-> Known(w.idx_seq),
         instance |-> <<start0, start1, 0, w.fib_seq[Len(w.fib_seq)], Fe(fib_steps)>>]

\* ------------------------------------------------------------------------
\* session-7.rs: rows fingerprinted by a random linear combination in the
\* second phase
ROW_EQUALITY == <<<<0, 3>>, <<0, 5>>, <<1, 2>>>>

session7_columns == {"adv0", "adv1", "adv2", "rlc", "q_enable"}

\* RLCChip::compute_rlc, from advs[i] on: rlc += advs[i] * c; c *= challenge
RECURSIVE compute_rlc_from(_, _, _, _)
compute_rlc_from(challenge_, advs, i, c) ==
    IF i > Len(advs) THEN 0
    ELSE FAdd(FMul(advs[i], c), compute_rlc_from(challenge_, advs, i + 1, FMul(c, challenge_)))

\* compute_rlc with c starting at the challenge instead of F::ONE
compute_rlc_from_challenge(challenge_, advs) == compute_rlc_from(challenge_, advs, 1, challenge_)

compute_rlc(challenge_, advs) == compute_rlc_from(challenge_, advs, 1, 1)

\* gate "rlc": y = adv0 + adv1 * challenge + adv2 * challenge^2
RLCChip_rlc(sel, rlc, advice, challenge_) ==
    FMul(sel, FSub(rlc, FAdd(FAdd(advice[1], FMul(advice[2], challenge_)),
                             FMul(advice[3], FMul(challenge_, challenge_)))))

session7_configure(g, r, chal) ==
    [gates |-> <<[name |-> "rlc", selector |-> Query(g, "q_enable", r),
                  polys |-> <<RLCChip_rlc(Query(g, "q_enable", r), Query(g, "rlc", r),
                                  <<Query(g, "adv0", r), Query(g, "adv1", r), Query(g, "adv2", r)>>,
                                  chal)>>]>>,
     lookups |-> <<>>]

RLCChip_alloc_row_default(ly, value) ==
    assign_region(ly, "fingerprint-row",
        <<assign_advice("adv0", 0, ValueMap(value, LAMBDA v : v[1])),
          assign_advice("adv1", 0, ValueMap(value, LAMBDA v : v[2])),
          assign_advice("adv2", 0, ValueMap(value, LAMBDA v : v[3])),
          enable("q_enable", 0),
          assign_advice("rlc", 0,
              IF IsKnown(get_challenge(ly)) /\ IsKnown(value)
              THEN Known(compute_rlc(get_challenge(ly)[1], value[1])) ELSE Known(0))>>)

\* RLCChip::alloc_row
RLCChip_alloc_row(ly, value) ==
    assign_region(ly, "fingerprint-row",
        <<assign_advice("adv0", 0, ValueMap(value, LAMBDA v : v[1])),
          assign_advice("adv1", 0, ValueMap(value, LAMBDA v : v[2])),
          assign_advice("adv2", 0, ValueMap(value, LAMBDA v : v[3])),
          enable("q_enable", 0),
          assign_advice("rlc", 0,
              IF IsKnown(get_challenge(ly)) /\ IsKnown(value)
              THEN Known(compute_rlc(get_challenge(ly)[1], value[1])) ELSE Unknown)>>)

RECURSIVE session7_rows(_, _, _, _)
session7_rows(ly, assignment, i, num_rows) ==
    IF i = num_rows THEN ly
    ELSE session7_rows(RLCChip_alloc_row(ly, ValueMap(assignment, LAMBDA v : v[i + 1])),
                       assignment, i + 1, num_rows)

\* the rows are allocated, then region "eq" constrains the rlc cells of the
\* pairs of eq_rows to be equal
session7_synthesize(w, ly) ==
    LET num_rows == SetMax({SetMax({w.eq_rows[k][1], w.eq_rows[k][2]}) : k \in DOMAIN w.eq_rows}) + 1
        rows == session7_rows(ly, w.assignment, 0, num_rows)
        rlcs(i) == <<"rlc", rows.regions[Len(ly.regions) + i + 1].start>>
    IN  assign_region(rows, "eq",
            [k \in DOMAIN w.eq_rows |->
                constrain_equal(rlcs(w.eq_rows[k][1]), rlcs(w.eq_rows[k][2]))])

session7_main ==
    [eq_rows |-> ROW_EQUALITY,
     assignment |-> Known(<<<<1, 2, 3>>, <<4, 5, 6>>, <<4, 5, 6>>, <<1, 2, 3>>,
                            <<48879, 51966, 61453>>, <<1, 2, 3>>>>)]

\* RLCChip<F, 3>
RLC_N == 3

\* main's assignment, and assignments in which a row constrained equal to
\* another holds a different tuple: row 3 differs from row 0 by
\* (2, -3, 1), the coefficients of (c - 1)(c - 2); row 5 differs from row
\* 0 by (0, 0, 1); row 2 differs from row 1 by (0, 1, 0)
session7_assignments ==
    {session7_main,
     [session7_main EXCEPT !.assignment = Known([@[1] EXCEPT ![4] = <<3, P - 1, 4>>])],
     [session7_main EXCEPT !.assignment = Known([@[1] EXCEPT ![6] = <<1, 2, 4>>])],
     [session7_main EXCEPT !.assignment = Known([@[1] EXCEPT ![3] = <<4, 6, 6>>])]}

\* ------------------------------------------------------------------------
\* challenges.rs: one cell of a second-phase column is assigned the challenge
challenges_columns == {"w0", "w0_phase2", "q_challenge"}

\* gate "eq_challenge"
challenges_eq_challenge(q_challenge, w0, chal) == FMul(q_challenge, FSub(w0, chal))

challenges_configure(g, r, chal) ==
    [gates |-> <<[name |-> "eq_challenge", selector |-> Query(g, "q_challenge", r),
                  polys |-> <<challenges_eq_challenge(Query(g, "q_challenge", r),
                                  Query(g, "w0_phase2", r), chal)>>]>>,
     lookups |-> <<>>]

\* ChallengeChip::challenge: region "challenge" assigns the advice cell the
\* value get_challenge returned; the selector is not enabled
challenges_challenge(ly) ==
    assign_region(ly, "challenge", <<assign_advice("w0_phase2", 0, get_challenge(ly))>>)

challenges_synthesize(w, ly) == challenges_challenge(ly)

\* main: the circuit has no witness
challenges_main == "PhantomData"

\* ------------------------------------------------------------------------
\* fixed.rs: a^5 of the secret is compared with a constant of a fixed column
fixed_columns == {"q_mul", "advice", "q_fixed", "fixed"}

\* gate "vertical-mul"
fixed_vertical_mul(q_enable, w0, w1, w3) == FMul(q_enable, FSub(FMul(w0, w1), w3))

\* gate "equal-constant"
fixed_equal_constant(q_fixed, w0, c1) == FMul(q_fixed, FSub(w0, c1))

fixed_configure(g, r) ==
    [gates |-> <<[name |-> "vertical-mul", selector |-> Query(g, "q_mul", r),
                  polys |-> <<fixed_vertical_mul(Query(g, "q_mul", r), Query(g, "advice", r),
                                  Query(g, "advice", r + 1), Query(g, "advice", r + 2))>>],
                 [name |-> "equal-constant", selector |-> Query(g, "q_fixed", r),
                  polys |-> <<fixed_equal_constant(Query(g, "q_fixed", r),
                                  Query(g, "advice", r), Query(g, "fixed", r))>>]>>,
     lookups |-> <<>>]

\* TestCircuit::mul: a region of 3 rows
fixed_mul(lhs, rhs) ==
    <<assign_advice("advice", 0, lhs.value), assign_advice("advice", 1, rhs.value),
      assign_advice("advice", 2, ValueMul(lhs.value, rhs.value)), enable("q_mul", 0),
      constrain_equal(Rel("advice", 0), lhs.cell), constrain_equal(Rel("advice", 1), rhs.cell)>>

\* TestCircuit::free: a region of 1 row
fixed_free(value) == <<assign_advice("advice", 0, value)>>

\* TestCircuit::fixed: a region of 1 row, the variable copied next to the
\* constant
fixed_fixed(value, variable) ==
    <<copy_advice(variable, "advice", 0), assign_fixed("fixed", 0, value), enable("q_fixed", 0)>>

\* F::from_u128(4272253717090457), which is 1337^5
fixed_constant == FMul(FMul(FMul(FMul(Fe(1337), 1337), 1337), 1337), 1337)

\* a = secret, a2 = a * a, a3 = a2 * a, a5 = a3 * a2, a5 fixed to the constant
fixed_synthesize(secret, ly) ==
    LET ly1 == assign_region(ly, "free variable", fixed_free(secret))
        a == Assigned(ly1, "advice", 0, secret)
        ly2 == assign_region(ly1, "mul", fixed_mul(a, a))
        a2 == Assigned(ly2, "advice", 2, ValueMul(a.value, a.value))
        ly3 == assign_region(ly2, "mul", fixed_mul(a2, a))
        a3 == Assigned(ly3, "advice", 2, ValueMul(a2.value, a.value))
        ly4 == assign_region(ly3, "mul", fixed_mul(a3, a2))
        a5 == Assigned(ly4, "advice", 2, ValueMul(a3.value, a2.value))
    IN  assign_region(ly4, "fixed", fixed_fixed(fixed_constant, a5))

fixed_main == Known(Fe(1337))

\* ------------------------------------------------------------------------
\* ArithmeticChip::bit (ex-suduko.rs, ex-arith.rs): no synthesize of the
\* examples calls it; it is exercised by a circuit with ex-suduko's
\* configuration whose synthesize allocates one bit per element of its
\* witness with the first-phase chip.

\* value.map(|b| if b { F::ONE } else { F::ZERO })
BitValue(value) == ValueMap(value, LAMBDA b : IF b THEN 1 ELSE 0)

\* bit without its third assignment of column c0
ArithmeticChip_bit_two_writes(chip, value) ==
    [name |-> "bit", col |-> chip.w0, v |-> BitValue(value),
     ops |-> <<enable(chip.q_arith, 0),
               assign_advice(chip.w0, 0, BitValue(value)),
               assign_advice(chip.w1, 0, BitValue(value)),
               assign_advice(chip.w2, 0, Known(0)),
               constrain_equal(Rel(chip.w0, 0), Rel(chip.w1, 0)),
               assign_fixed("c0", 0, 0),
               assign_fixed("c0", 0, FNeg(1)),
               assign_fixed("cc", 0, 0),
               assign_fixed("cm", 0, 1)>>]

\* the closures named "c0", "c1" and "c2" all assign column c0 at offset 0
ArithmeticChip_bit(chip, value) ==
    [name |-> "bit", col |-> chip.w0, v |-> BitValue(value),
     ops |-> <<enable(chip.q_arith, 0),
               assign_advice(chip.w0, 0, BitValue(value)),
               assign_advice(chip.w1, 0, BitValue(value)),
               assign_advice(chip.w2, 0, Known(0)),
               constrain_equal(Rel(chip.w0, 0), Rel(chip.w1, 0)),
               assign_fixed("c0", 0, 0),
               assign_fixed("c0", 0, FNeg(1)),
               assign_fixed("c0", 0, 0),
               assign_fixed("cc", 0, 0),
               assign_fixed("cm", 0, 1)>>]

RECURSIVE bits_synthesize(_, _)
bits_synthesize(w, ly) ==
    IF w = <<>> THEN ly
    ELSE LET bit == ArithmeticChip_bit(phase1_chip, Head(w))
             next == assign_region(ly, bit.name, bit.ops)
         IN  IF next = next THEN bits_synthesize(Tail(w), next) ELSE ly

MaxBits == 2

\* the witnesses: up to MaxBits bits, each known or not
bits_inputs ==
    UNION {[1..n -> {Known(TRUE), Known(FALSE), Unknown}] : n \in 1..MaxBits}

\* ------------------------------------------------------------------------
\* conditional-poseidon.rs: a simplified Poseidon permutation laid out as a
\* table of its rounds, and a chip that looks a hash up in it when a bit
\* is set.
ROUNDS == 8

WIDTH == 3

MAX_OPS_POSEIDON == 10

poseidon_columns ==
    {"sel", "in1", "in2", "out", "on", "cols0", "cols1", "cols2", "rndc0", "rndc1", "rndc2",
     "inp1", "inp2", "flag_start", "flag_round", "flag_final", "free"}

\* a^n
RECURSIVE FPow(_, _)
FPow(a, n) ==
    IF n = 0 THEN 1
    ELSE LET h == FPow(a, n \div 2)
         IN  IF h = h THEN (IF n % 2 = 0 THEN FMul(h, h) ELSE FMul(FMul(h, h), a)) ELSE 0

\* Field::invert
FInv(a) == FPow(a, P - 2)

\* the six scalars poseidon_matrix draws from its seeded generator, and
\* the scalar poseidon_round_constants draws for round i, position j: the
\* generator's output is fixed by its seed; these values stand for it
poseidon_xi == <<7919, 104729, 1299709>>

poseidon_yi == <<15485863, 2750159, 611953>>

poseidon_rc(i, j) == FAdd(FMul(Fe(48879 + i), Fe(51966 + (7 * j))), Fe(61453 * i))

\* Cauchy matrix
poseidon_matrix ==
    [i \in 1..WIDTH |-> [j \in 1..WIDTH |-> FInv(FAdd(poseidon_xi[i], poseidon_yi[j]))]]

poseidon_round_constants == [i \in 1..ROUNDS |-> [j \in 1..WIDTH |-> poseidon_rc(i, j)]]

\* sbox: x * x * x * x * x
poseidon_sbox(x) == FMul(FMul(FMul(FMul(x, x), x), x), x)

\* row i of the matrix applied to st
poseidon_mix(mat, st, i) ==
    FAdd(FAdd(FMul(mat[i][1], st[1]), FMul(mat[i][2], st[2])), FMul(mat[i][3], st[3]))

poseidon_round(mat, rc, st) ==
    LET arc == <<FAdd(st[1], rc[1]), FAdd(st[2], rc[2]), FAdd(st[3], rc[3])>>
        sb == <<poseidon_sbox(arc[1]), poseidon_sbox(arc[2]), poseidon_sbox(arc[3])>>
    IN  <<poseidon_mix(mat, sb, 1), poseidon_mix(mat, sb, 2), poseidon_mix(mat, sb, 3)>>

\* the state after the rounds r..ROUNDS-1 applied to state
RECURSIVE poseidon_rounds(_, _)
poseidon_rounds(state, r) ==
    IF r = ROUNDS THEN state
    ELSE LET next == poseidon_round(poseidon_matrix, poseidon_round_constants[r + 1], state)
         IN  IF next = next THEN poseidon_rounds(next, r + 1) ELSE state

\* PoseidonTable::hash
PoseidonTable_hash(in1, in2) == poseidon_rounds(<<in1, in2, 0>>, 0)[1]

\* gate "start"
PoseidonTable_start(flag_start, inp1, inp2, col1, col2, col3) ==
    <<FMul(flag_start, FSub(inp1, col1)),
      FMul(flag_start, FSub(inp2, col2)),
      FMul(flag_start, col3)>>

\* gate "round": the round is built from the queried cells
PoseidonTable_round(flag_round, rndc, cols_cur, cols_nxt, inp_cur, inp_nxt) ==
    LET cols_arc == [i \in 1..WIDTH |-> FAdd(cols_cur[i], rndc[i])]
        cols_sbox == [i \in 1..WIDTH |->
                        FMul(FMul(FMul(FMul(cols_arc[i], cols_arc[i]), cols_arc[i]),
                                  cols_arc[i]), cols_arc[i])]
        cols_mat == [i \in 1..WIDTH |->
                       FAdd(FAdd(FAdd(0, FMul(cols_sbox[1], poseidon_matrix[i][1])),
                                 FMul(cols_sbox[2], poseidon_matrix[i][2])),
                            FMul(cols_sbox[3], poseidon_matrix[i][3]))]
        sboxed == IF cols_sbox = cols_sbox THEN cols_mat ELSE cols_mat
    IN  <<FMul(flag_round, FSub(sboxed[1], cols_nxt[1])),
          FMul(flag_round, FSub(sboxed[2], cols_nxt[2])),
          FMul(flag_round, FSub(sboxed[3], cols_nxt[3])),
          FMul(flag_round, FSub(inp_cur[1], inp_nxt[1])),
          FMul(flag_round, FSub(inp_cur[2], inp_nxt[2]))>>

\* gate "bit"
PoseidonChip_bit(sel, on) == <<FMul(FMul(sel, on), FSub(on, 1))>>

\* "poseidon_lookup": (1, in1, in2, out), each multiplied by on * sel
PoseidonChip_lookup(sel, on, in1, in2, out) ==
    LET do_lookup == FMul(on, sel)
    IN  <<FMul(do_lookup, 1), FMul(do_lookup, in1), FMul(do_lookup, in2), FMul(do_lookup, out)>>

\* PoseidonTable::table_expr
PoseidonTable_table_expr == <<"flag_final", "inp1", "inp2", "cols0">>

poseidon_configure(g, r) ==
    [gates |->
       <<[name |-> "start", selector |-> Query(g, "flag_start", r),
          polys |-> PoseidonTable_start(Query(g, "flag_start", r),
                        Query(g, "inp1", r), Query(g, "inp2", r),
                        Query(g, "cols0", r), Query(g, "cols1", r), Query(g, "cols2", r))],
         [name |-> "round", selector |-> Query(g, "flag_round", r),
          \* every polynomial of the gate is a multiple of flag_round
          polys |-> IF Query(g, "flag_round", r) = 0 THEN <<0, 0, 0, 0, 0>>
                    ELSE PoseidonTable_round(Query(g, "flag_round", r),
                        <<Query(g, "rndc0", r), Query(g, "rndc1", r), Query(g, "rndc2", r)>>,
                        <<Query(g, "cols0", r), Query(g, "cols1", r), Query(g, "cols2", r)>>,
                        <<Query(g, "cols0", r + 1), Query(g, "cols1", r + 1), Query(g, "cols2", r + 1)>>,
                        <<Query(g, "inp1", r), Query(g, "inp2", r)>>,
                        <<Query(g, "inp1", r + 1), Query(g, "inp2", r + 1)>>)],
         [name |-> "bit", selector |-> Query(g, "sel", r),
          polys |-> PoseidonChip_bit(Query(g, "sel", r), Query(g, "on", r))]>>,
     lookups |->
       <<[name |-> "poseidon_lookup", enabled |-> FMul(Query(g, "on", r), Query(g, "sel", r)),
          inputs |-> PoseidonChip_lookup(Query(g, "sel", r), Query(g, "on", r),
                         Query(g, "in1", r), Query(g, "in2", r), Query(g, "out", r)),
          table |-> PoseidonTable_table_expr, any |-> TRUE]>>]

\* PoseidonTable::assign_row
PoseidonTable_assign_row(idx, flag_start, flag_round, flag_final, rndc, cols, inp) ==
    <<assign_fixed("flag_start", idx, IF flag_start THEN 1 ELSE 0),
      assign_fixed("flag_round", idx, IF flag_round THEN 1 ELSE 0),
      assign_fixed("flag_final", idx, IF flag_final THEN 1 ELSE 0),
      assign_fixed("rndc0", idx, rndc[1]),
      assign_fixed("rndc1", idx, rndc[2]),
      assign_fixed("rndc2", idx, rndc[3]),
      assign_advice("cols0", idx, Known(cols[1])),
      assign_advice("cols1", idx, Known(cols[2])),
      assign_advice("cols2", idx, Known(cols[3])),
      assign_advice("inp1", idx, Known(inp[1])),
      assign_advice("inp2", idx, Known(inp[2]))>>

\* populate, the rows of one operation from round r on: the row of round r
\* holds the state before the round and is flagged flag_start for r = 0 and
\* flag_round for r > 0; the output row follows the last round
RECURSIVE PoseidonTable_rounds(_, _, _, _)
PoseidonTable_rounds(st, inp, r, nxt) ==
    IF r = ROUNDS
    THEN PoseidonTable_assign_row(nxt, FALSE, FALSE, TRUE, <<0, 0, 0>>, st, inp)
    ELSE LET next == poseidon_round(poseidon_matrix, poseidon_round_constants[r + 1], st)
         IN  IF next = next
             THEN PoseidonTable_assign_row(nxt, r = 0, r > 0, FALSE,
                      poseidon_round_constants[r + 1], st, inp)
                  \o PoseidonTable_rounds(next, inp, r + 1, nxt + 1)
             ELSE <<>>

\* the rows of the operations op..MAX_OPS_POSEIDON-1
RECURSIVE PoseidonTable_ops(_, _)
PoseidonTable_ops(inputs, op) ==
    IF op = MAX_OPS_POSEIDON THEN <<>>
    ELSE PoseidonTable_rounds(<<inputs[op + 1][1], inputs[op + 1][2], 0>>, inputs[op + 1],
                              0, 1 + (op * (ROUNDS + 1)))
         \o PoseidonTable_ops(inputs, op + 1)

\* PoseidonTable::populate: the zero row, then the operations; assert_eq
\* panics on a list of another length
PoseidonTable_populate(ly, inputs) ==
    IF Len(inputs) # MAX_OPS_POSEIDON THEN [ly EXCEPT !.panic = TRUE]
    ELSE assign_region(ly, "poseidon",
             PoseidonTable_assign_row(0, FALSE, FALSE, FALSE, <<0, 0, 0>>, <<0, 0, 0>>, <<0, 0>>)
             \o PoseidonTable_ops(inputs, 0))

\* PoseidonChip::hash, the closure of its region: out = hash(in1, in2) * on
PoseidonChip_hash(on, in1, in2) ==
    LET hsh == ValueMap(ValueZip(in1.value, in2.value),
                        LAMBDA p : PoseidonTable_hash(p[1], p[2]))
    IN  <<enable("sel", 0),
          copy_advice(on, "on", 0),
          copy_advice(in1, "in1", 0),
          copy_advice(in2, "in2", 0),
          assign_advice("out", 0, ValueMul(on.value, hsh))>>

\* PoseidonChip::hash stores the inputs it knows; finalize pads them with
\* (0, 0) to MAX_OPS_POSEIDON
PoseidonChip_inputs(in1, in2) ==
    LET stored == IF IsKnown(in1.value) /\ IsKnown(in2.value)
                  THEN <<<<in1.value[1], in2.value[1]>>>> ELSE <<>>
    IN  stored \o [i \in 1..(MAX_OPS_POSEIDON - Len(stored)) |-> <<0, 0>>]

\* synthesize: three free cells, one hash, finalize.  The source assigns
\* F::ONE to the three cells; w holds the values assigned, so that hash is
\* exercised on other arguments as well.
poseidon_synthesize(w, ly) ==
    LET ly1 == assign_region(ly, "free1", <<assign_advice("free", 0, Known(w.in1))>>)
        in1 == Assigned(ly1, "free", 0, Known(w.in1))
        ly2 == assign_region(ly1, "free2", <<assign_advice("free", 0, Known(w.in2))>>)
        in2 == Assigned(ly2, "free", 0, Known(w.in2))
        ly3 == assign_region(ly2, "free3", <<assign_advice("free", 0, Known(w.on))>>)
        on == Assigned(ly3, "free", 0, Known(w.on))
        ly4 == assign_region(ly3, "poseidon", PoseidonChip_hash(on, in1, in2))
    IN  PoseidonTable_populate(ly4, PoseidonChip_inputs(in1, in2))

\* main's circuit
poseidon_main == [on |-> 1, in1 |-> 1, in2 |-> 1]

\* the arguments hash is called with
poseidon_inputs == {[on |-> o, in1 |-> a, in2 |-> 1] : o \in {0, 1, 2}, a \in {1, 5}}

\* ------------------------------------------------------------------------
\* session-3.rs: the XOR of two secrets, by a lookup in a table of 4-bit XORs,
\* is the public input
session3_columns ==
    {"advice", "fixed", "instance", "q_xor", "tbl_in1", "tbl_in2", "tbl_out",
     "q_mul", "q_add", "q_fix"}

\* in1 ^ in2 on integers
RECURSIVE Xor(_, _)
Xor(a, b) ==
    IF a = 0 /\ b = 0 THEN 0
    ELSE (((a % 2) + (b % 2)) % 2) + (2 * Xor(a \div 2, b \div 2))

\* the input expressions of lookup "xor"
session3_xor_lookup(q_xor, w0, w1, w2) == <<FMul(q_xor, w0), FMul(q_xor, w1), FMul(q_xor, w2)>>

\* gate "fixed"
session3_fixed_gate(q_fix, w0, c0) == FMul(q_fix, FSub(w0, c0))

\* gate "vertical-mul"
session3_mul_gate(q_mul, w0, w1, w2) == FMul(q_mul, FSub(FMul(w1, w0), w2))

\* gate "vertical-add"
session3_add_gate(q_add, w0, w1, w2) == FMul(q_add, FSub(FAdd(w1, w0), w2))

session3_configure(g, r) ==
    [gates |->
       <<[name |-> "fixed", selector |-> Query(g, "q_fix", r),
          polys |-> <<session3_fixed_gate(Query(g, "q_fix", r), Query(g, "advice", r),
                          Query(g, "fixed", r))>>],
         [name |-> "vertical-mul", selector |-> Query(g, "q_mul", r),
          polys |-> <<session3_mul_gate(Query(g, "q_mul", r), Query(g, "advice", r),
                          Query(g, "advice", r + 1), Query(g, "advice", r + 2))>>],
         [name |-> "vertical-add", selector |-> Query(g, "q_add", r),
          polys |-> <<session3_add_gate(Query(g, "q_add", r), Query(g, "advice", r),
                          Query(g, "advice", r + 1), Query(g, "advice", r + 2))>>]>>,
     lookups |->
       <<[name |-> "xor", enabled |-> Query(g, "q_xor", r),
          inputs |-> session3_xor_lookup(Query(g, "q_xor", r), Query(g, "advice", r),
                         Query(g, "advice", r + 1), Query(g, "advice", r + 2)),
          table |-> <<"tbl_in1", "tbl_in2", "tbl_out">>, any |-> FALSE]>>]

\* a table of sums in place of the XORs
session3_sum_table ==
    [i \in 1..256 |->
        [tbl_in1 |-> Fe((i - 1) \div 16), tbl_in2 |-> Fe((i - 1) % 16),
         tbl_out |-> Fe(((i - 1) \div 16) + ((i - 1) % 16))]]

\* the rows of "xor-table": for in1 in 0..16, for in2 in 0..16, row += 1
session3_xor_table ==
    [i \in 1..256 |->
        [tbl_in1 |-> Fe((i - 1) \div 16), tbl_in2 |-> Fe((i - 1) % 16),
         tbl_out |-> Fe(Xor((i - 1) \div 16, (i - 1) % 16))]]

\* ArithmeticChip::free
session3_free(value) == <<assign_advice("advice", 0, value)>>

\* TestCircuit::bits: a free cell holding the u8
session3_bits(val) == session3_free(ValueMap(val, LAMBDA v : Fe(v)))

\* TestCircuit::xor: "xor-region", 3 rows
session3_xor(lhs, rhs) ==
    <<enable("q_xor", 0),
      copy_advice(lhs.var, "advice", 0),
      copy_advice(rhs.var, "advice", 1),
      assign_advice("advice", 2,
          ValueMap(ValueMap(ValueZip(lhs.val, rhs.val), LAMBDA p : Xor(p[1], p[2])),
                   LAMBDA v : Fe(v)))>>

session3_synthesize(w, ly) ==
    LET ly0 == assign_table(ly, session3_xor_table)
        ly1 == assign_region(ly0, "free", session3_bits(w.a))
        a == [var |-> Assigned(ly1, "advice", 0, ValueMap(w.a, LAMBDA v : Fe(v))), val |-> w.a]
        ly2 == assign_region(ly1, "free", session3_bits(w.b))
        b == [var |-> Assigned(ly2, "advice", 0, ValueMap(w.b, LAMBDA v : Fe(v))), val |-> w.b]
        ly3 == assign_region(ly2, "xor-region", session3_xor(a, b))
    IN  constrain_instance(ly3, <<"advice", LastStart(ly3) + 2>>, "instance", 0)

\* main: a = 0xe, b = 0xb, instances = [0x5]
session3_main == [a |-> Known(14), b |-> Known(11), instance |-> <<Fe(5)>>]

\* other secrets and public inputs
session3_inputs ==
    {[a |-> Known(a), b |-> Known(b), instance |-> <<Fe(i)>>] :
        a \in {14, 16}, b \in {11, 3}, i \in {5, 13}}

\* a witness a prover may hand to TestCircuit: main's generator, taking a
\* Fibonacci step at the rows of `steps` and padding at the others
RECURSIVE instances_prover_witness(_, _, _)
instances_prover_witness(steps, idx, w) ==
    IF idx > fib_STEPS THEN w
    ELSE LET n == Len(w.fib_seq)
         IN  instances_prover_witness(steps, idx + 1,
                 IF idx \in steps
                 THEN [fib_seq |-> Append(w.fib_seq, FAdd(w.fib_seq[n - 1], w.fib_seq[n])),
                       flg_seq |-> Append(w.flg_seq, TRUE),
                       idx_seq |-> Append(w.idx_seq, w.idx_seq[Len(w.idx_seq)] + 1)]
                 ELSE [fib_seq |-> Append(w.fib_seq, w.fib_seq[n]),
                       flg_seq |-> Append(w.flg_seq, FALSE),
                       idx_seq |-> Append(w.idx_seq, w.idx_seq[Len(w.idx_seq)])])

\* the circuit and the public inputs of such a prover
instances_prover(steps, start0, start1) ==
    LET w == instances_prover_witness(steps, 1,
                 [fib_seq |-> <<start0, start1>>, flg_seq |-> <<>>, idx_seq |-> <<0>>])
    IN  [fib_seq |-> Known(w.fib_seq), flg_seq |-> Known(w.flg_seq), idx_seq |-> Known(w.idx_seq),
         instance |-> <<start0, start1, 0, w.fib_seq[Len(w.fib_seq)],
                        Fe(w.idx_seq[Len(w.idx_seq)])>>]

\* the rows at which the provers modelled take a step
instances_flags == {{}, {1, 2}, {1, 3}, {2}, {2, 3}, {1, 2, 4}, {fib_STEPS}}

\* ------------------------------------------------------------------------
\* The example circuits: what configure and synthesize of each one do.
Circuits == {"adder", "tinyram", "session9", "sudoku", "session5", "chips", "equality", "instances", "session7",
             "challenges", "fixed", "session3"}

Columns(name) ==
    CASE name = "adder" -> adder_columns
      [] name = "tinyram" -> tinyram_columns
      [] name = "session9" -> session9_columns
      [] name = "sudoku" -> sudoku_columns
      [] name = "session5" -> session5_columns
      [] name = "chips" -> chips_columns
      [] name = "equality" -> equality_columns
      [] name = "instances" -> instances_columns
      [] name = "session7" -> session7_columns
      [] name = "challenges" -> challenges_columns
      [] name = "fixed" -> fixed_columns
      [] name = "bits" -> sudoku_columns
      [] name = "session3" -> session3_columns
      [] name = "poseidon" -> poseidon_columns

SecondPhase_none(name) == {}

\* the advice columns allocated in SecondPhase
SecondPhase(name) ==
    CASE name = "sudoku" -> {"w0_phase2", "w1_phase2", "w2_phase2"}
      [] name = "session7" -> {"rlc"}
      [] name = "challenges" -> {"w0_phase2"}
      [] name = "bits" -> {"w0_phase2", "w1_phase2", "w2_phase2"}
      [] OTHER -> {}

InstanceColumns(name) == IF name \in {"instances", "session3"} THEN {"instance"} ELSE {}

\* the public inputs MockProver::run is given
Instance(c) == IF c.name \in {"instances", "session3"} THEN c.w.instance ELSE <<>>

\* the gates and lookups of the circuit, evaluated at row r of grid g under
\* the challenge chal
Configure(name, g, r, chal) ==
    CASE name = "adder" -> adder_configure(g, r)
      [] name = "tinyram" -> tinyram_configure(g, r)
      [] name = "session9" -> session9_configure(g, r)
      [] name = "sudoku" -> sudoku_configure(g, r, chal)
      [] name = "session5" -> session5_configure(g, r)
      [] name = "chips" -> chips_configure(g, r)
      [] name = "equality" -> equality_configure(g, r)
      [] name = "instances" -> instances_configure(g, r)
      [] name = "session7" -> session7_configure(g, r, chal)
      [] name = "challenges" -> challenges_configure(g, r, chal)
      [] name = "fixed" -> fixed_configure(g, r)
      [] name = "bits" -> sudoku_configure(g, r, chal)
      [] name = "session3" -> session3_configure(g, r)
      [] name = "poseidon" -> poseidon_configure(g, r)

Synthesize(c, ly) ==
    CASE c.name = "adder" -> adder_synthesize(c.w, ly)
      [] c.name = "tinyram" -> tinyram_synthesize(c.w, ly)
      [] c.name = "session9" -> session9_synthesize(c.w, ly)
      [] c.name = "sudoku" -> sudoku_synthesize(c.w, ly)
      [] c.name = "session5" -> session5_synthesize(c.w, ly)
      [] c.name = "chips" -> chips_synthesize(c.w, ly)
      [] c.name = "equality" -> equality_synthesize(c.w, ly)
      [] c.name = "instances" -> instances_synthesize(c.w, ly)
      [] c.name = "session7" -> session7_synthesize(c.w, ly)
      [] c.name = "challenges" -> challenges_synthesize(c.w, ly)
      [] c.name = "fixed" -> fixed_synthesize(c.w, ly)
      [] c.name = "bits" -> bits_synthesize(c.w, ly)
      [] c.name = "session3" -> session3_synthesize(c.w, ly)
      [] c.name = "poseidon" -> poseidon_synthesize(c.w, ly)

\* Circuit::without_witnesses
without_witnesses(c) ==
    CASE c.name = "adder" -> [c EXCEPT !.w = Unknown]
      [] c.name = "tinyram" -> [c EXCEPT !.w = [str |-> Unknown, sts |-> Unknown]]
      [] c.name = "session9" -> [c EXCEPT !.w = Unknown]
      [] c.name = "sudoku" -> [c EXCEPT !.w.solutation = Unknown]
      [] c.name = "session5" -> c
      [] c.name = "chips" -> [c EXCEPT !.w = Unknown]
      [] c.name = "equality" -> [c EXCEPT !.w = Unknown]
      [] c.name = "instances" ->
           [c EXCEPT !.w.fib_seq = Unknown, !.w.idx_seq = Unknown, !.w.flg_seq = Unknown]
      [] c.name = "session7" -> [c EXCEPT !.w = [eq_rows |-> ROW_EQUALITY, assignment |-> Unknown]]
      [] c.name = "challenges" -> c
      [] c.name = "fixed" -> [c EXCEPT !.w = Unknown]
      [] c.name = "bits" -> [c EXCEPT !.w = [i \in DOMAIN c.w |-> Unknown]]
      [] c.name = "session3" -> [c EXCEPT !.w.a = Unknown, !.w.b = Unknown]
      [] c.name = "poseidon" -> c

\* ------------------------------------------------------------------------
\* The validator (MockProver::verify): every gate polynomial that is not
\* zero at a row, every lookup whose input tuple is in no row of its table,
\* every copy constraint whose two cells differ.
TableColumns(name, g) ==
    LET lookups == Configure(name, g, 0, 0).lookups
    IN  UNION {{lookups[j].table[i] : i \in DOMAIN lookups[j].table} :
                 j \in {k \in DOMAIN lookups : ~lookups[k].any}}

\* The tuples of a lookup's table: the rows assign_table wrote for a static
\* table, every row of the grid for the table expressions of lookup_any.
TableTuples(name, g, lk) ==
    {[i \in DOMAIN lk.table |-> Query(g, lk.table[i], t)] :
        t \in IF lk.any THEN Rows(g, TableColumns(name, g))
              ELSE 0..(Len(g[lk.table[1]]) - 1)}

GateFailures(name, g, chal) ==
    UNION {LET gates == Configure(name, g, r, chal).gates
           IN  {[kind |-> "gate", name |-> gates[i].name, index |-> i, row |-> r] :
                  i \in {j \in DOMAIN gates : \E p \in DOMAIN gates[j].polys : gates[j].polys[p] # 0}}
           : r \in Rows(g, TableColumns(name, g))}

LookupFailures(name, g, chal) ==
    LET shape == Configure(name, g, 0, chal).lookups
    IN  UNION {LET tuples == TableTuples(name, g, shape[j])
               IN  {[kind |-> "lookup", name |-> shape[j].name, index |-> j, row |-> r] :
                      r \in {t \in Rows(g, TableColumns(name, g)) :
                               Configure(name, g, t, chal).lookups[j].inputs \notin tuples}}
               : j \in DOMAIN shape}

CopyFailures(g, copies) ==
    {[kind |-> "copy", name |-> e[1][1], index |-> 0, row |-> e[1][2]] :
        e \in {x \in copies : CellAt(g, x[1][1], x[1][2]) # CellAt(g, x[2][1], x[2][2])}}

verify(name, ly) ==
    GateFailures(name, ly.grid, ly.chal) \cup LookupFailures(name, ly.grid, ly.chal)
        \cup CopyFailures(ly.grid, ly.copies)

\* ------------------------------------------------------------------------
\* The state machine: a circuit with its witness is synthesized for key
\* generation (without witnesses), then run by the MockProver phase by
\* phase, then validated; before validation a candidate assignment may
\* differ from the one synthesize wrote in up to MaxTamper advice cells.
VARIABLES circuit, pc, keygen, prover, challenge, failures, tampered

vars == <<circuit, pc, keygen, prover, challenge, failures, tampered>>

MaxTamper == 2

adder_starts == {1337, 0, P - 3}

\* the trace of main with one state altered
tinyram_traces ==
    {[tinyram_main EXCEPT !.sts = Known([tinyram_main.sts[1] EXCEPT ![i] = st])] :
        i \in 1..Len(tinyram_main.sts[1]), st \in {ST_A, ST_B, ST_C, ST_DONE}}

\* the table of main with the address and counter of one row replaced
session9_tables ==
    {Known([session9_main[1] EXCEPT ![i].addr = a, ![i].rw_counter = c]) :
        i \in 1..ROWS, a \in {0, 1, Pow2(HalfBits) - 1}, c \in {0, 3, Pow2(HalfBits) - 1}}
    \cup {session9_main}

\* the puzzle of main with its solution, and the two with the numbers 1 and
\* 2 exchanged
sudoku_puzzles ==
    LET swap(grid) == [i \in 1..DIM |-> [j \in 1..DIM |->
                          CASE grid[i][j] = 1 -> 2 [] grid[i][j] = 2 -> 1 [] OTHER -> grid[i][j]]]
    IN  {sudoku_main, [suduko |-> swap(SUDUKO), solutation |-> Known(swap(SOLUTION))]}

\* claimed solutions that repeat a digit in the first row: 6 for 4 at a
\* blank position of SUDUKO, 3 for 5 at a position where SUDUKO gives the 5
sudoku_duplicates ==
    {[suduko |-> SUDUKO, solutation |-> Known([SOLUTION EXCEPT ![1][3] = 6])],
     [suduko |-> SUDUKO, solutation |-> Known([SOLUTION EXCEPT ![1][1] = 3])]}

\* the memory of main, and memories of other contents
session5_roms == {session5_main, Known(<<0, 0, 0, 0, 0>>), Known(<<1, 2, 3, 4, 5>>)}

\* the secret of main (chips.rs, equality.rs), and other secrets
secrets == {1337, 0, 1, P - 1}

Inputs(name) ==
    CASE name = "adder" -> {adder_main(<<s>>) : s \in adder_starts}
      [] name = "tinyram" -> tinyram_traces
      [] name = "session9" -> session9_tables
      [] name = "sudoku" -> sudoku_puzzles \cup sudoku_duplicates
      [] name = "session5" -> session5_roms
      [] name = "chips" -> {Known(Fe(x)) : x \in secrets}
      [] name = "equality" -> {Known(Fe(x)) : x \in secrets}
      [] name = "instances" -> {instances_main(n, 1, 1) : n \in {20, 0, fib_STEPS}}
                                 \cup {instances_prover(steps, 1, 2) : steps \in instances_flags}
                                 \cup {instances_main(20, 2, 5)}
      [] name = "session7" -> session7_assignments
      [] name = "challenges" -> {challenges_main}
      [] name = "fixed" -> {Known(Fe(x)) : x \in {1337, 2}}
      [] name = "bits" -> bits_inputs
      [] name = "session3" -> session3_inputs
      [] name = "poseidon" -> poseidon_inputs

TamperColumns(name) ==
    CASE name = "adder" -> {"advice"}
      [] name = "tinyram" -> {"ch"}
      [] name = "session9" -> {limb(0), limb(LIMBS - 1), "value"}
      [] name = "sudoku" -> {}
      [] name = "session5" -> {"adv1", "adv2"}
      [] name = "chips" -> {"w0", "w2"}
      [] name = "equality" -> {"advice"}
      [] name = "instances" -> {"fib"}
      [] name = "session7" -> {"rlc"}
      [] name = "challenges" -> {"w0_phase2"}
      [] name = "fixed" -> {"advice"}
      [] name = "bits" -> {"w0", "w1"}
      [] name = "session3" -> {"advice"}
      [] name = "poseidon" -> {"out"}

TamperRows(name) ==
    CASE name = "adder" -> 0..STEPS
      [] name = "tinyram" -> {0, 6, MAX_STR_LEN - 1}
      [] name = "session9" -> {1, ROWS}
      [] name = "sudoku" -> {}
      [] name = "session5" -> {2}
      [] name = "chips" -> {0, 1, 2}
      [] name = "equality" -> {0, 1, 3, 4}
      [] name = "instances" -> {0, fib_STEPS + 1}
      [] name = "session7" -> {0, 3}
      [] name = "challenges" -> {0}
      [] name = "fixed" -> {0, 10}
      [] name = "bits" -> {0}
      [] name = "session3" -> {2, 3, 4}
      [] name = "poseidon" -> {0}

TamperValues(name) ==
    CASE name = "adder" -> {0, 1, 1338, 1343}
      [] name = "tinyram" -> {0, 98}
      [] name = "session9" -> {Pow2(BITS), 1}
      [] name = "sudoku" -> {}
      [] name = "session5" -> {0, 4, 72, 111}
      [] name = "chips" -> {0, 5}
      [] name = "equality" -> {0, 5}
      [] name = "instances" -> {1, 2}
      [] name = "session7" -> {0, 6}
      [] name = "challenges" -> {0, 7}
      [] name = "fixed" -> {0, 1337}
      [] name = "bits" -> {0, 1, 2, P - 1}
      [] name = "session3" -> {5, 16}
      [] name = "poseidon" -> {0, 7}

\* the challenges the transcript may produce
Challenges == 0..10 \cup {1337, P - 1}

\* the layouter of a MockProver run: the instance columns hold the public
\* inputs
WithInstance(ly, c) ==
    [ly EXCEPT !.grid = [col \in DOMAIN @ |->
        IF col \in InstanceColumns(c.name)
        THEN [i \in 1..Len(Instance(c)) |-> <<Known(Instance(c)[i])>>]
        ELSE @[col]]]

NoLayouter == NewLayouter({}, {}, "none", 0, 0)

Init ==
    /\ \E name \in Circuits : \E w \in Inputs(name) : circuit = [name |-> name, w |-> w]
    /\ pc = "configured"
    /\ keygen = NoLayouter
    /\ prover = NoLayouter
    /\ challenge = 0
    /\ failures = {}
    /\ tampered = 0

\* keygen: synthesize of the circuit without witnesses
Keygen ==
    /\ pc = "configured"
    /\ keygen' = Synthesize(without_witnesses(circuit),
                     NewLayouter(Columns(circuit.name), SecondPhase(circuit.name), "keygen", 0, 0))
    /\ pc' = "keygen"
    /\ UNCHANGED <<circuit, prover, challenge, failures, tampered>>

\* MockProver::run, first phase
FirstPhase ==
    /\ pc = "keygen"
    /\ prover' = Synthesize(circuit,
                     WithInstance(NewLayouter(Columns(circuit.name), SecondPhase(circuit.name),
                                              "prove", 0, 0), circuit))
    /\ pc' = IF SecondPhase(circuit.name) = {} THEN "proved" ELSE "phase0"
    /\ UNCHANGED <<circuit, keygen, challenge, failures, tampered>>

\* the challenge is squeezed from the transcript once the first phase is
\* committed
Challenge ==
    /\ pc = "phase0"
    /\ ~prover.err
    /\ challenge' \in Challenges
    /\ pc' = "challenge"
    /\ UNCHANGED <<circuit, keygen, prover, failures, tampered>>

\* MockProver::run, second phase: synthesize runs again, the challenge known
NextPhase ==
    /\ pc = "challenge"
    /\ prover' = Synthesize(circuit,
                     WithInstance(NewLayouter(Columns(circuit.name), SecondPhase(circuit.name),
                                              "prove", 1, challenge), circuit))
    /\ pc' = "proved"
    /\ UNCHANGED <<circuit, keygen, challenge, failures, tampered>>

\* a candidate assignment: one advice cell holds another value
Tamper ==
    /\ pc = "proved"
    /\ tampered < MaxTamper
    /\ ~prover.err
    /\ \E col \in TamperColumns(circuit.name) :
         \E row \in TamperRows(circuit.name) :
           \E v \in TamperValues(circuit.name) :
             prover' = [prover EXCEPT !.grid[col] = Put(@, row, <<Known(v)>>)]
    /\ tampered' = tampered + 1
    /\ UNCHANGED <<circuit, pc, keygen, challenge, failures>>

\* MockProver::verify
Verify ==
    /\ pc = "proved"
    /\ ~prover.err
    /\ failures' = verify(circuit.name, prover)
    /\ pc' = "verified"
    /\ UNCHANGED <<circuit, keygen, prover, challenge, tampered>>

Next ==
    \/ Keygen
    \/ FirstPhase
    \/ Challenge
    \/ NextPhase
    \/ Tamper
    \/ Verify

Spec == Init /\ [][Next]_vars

\* ------------------------------------------------------------------------
\* Properties

GateRows(fs, gate) == {f.row : f \in {x \in fs : x.kind = "gate" /\ x.name = gate}}

LookupRows(fs, lookup) == {f.row : f \in {x \in fs : x.kind = "lookup" /\ x.name = lookup}}

\* C1: in the adder circuit the validator reports gate "step" at exactly the
\* rows i of 0..STEPS-1 whose next value is not the current value plus one
\* (so a candidate assignment satisfies the gate on rows 0..4 if and only
\* if values[i+1] = values[i] + 1 for every i), and the witness of main,
\* 1337..1342 at rows 0..5, validates with no failure at all.
C1_AdderStep ==
    (pc = "verified" /\ circuit.name = "adder") =>
        LET value(i) == Query(prover.grid, "advice", i)
        IN  /\ GateRows(failures, "step")
                 = {i \in 0..(STEPS - 1) : value(i + 1) # FAdd(value(i), 1)}
            /\ (tampered = 0 /\ circuit.w = adder_main(<<1337>>)) =>
                 /\ failures = {}
                 /\ \A i \in 0..STEPS : CellAt(prover.grid, "advice", i) = <<Known(1337 + i)>>

C1_Witness ==
    /\ pc = "verified"
    /\ circuit.name = "adder"
    /\ tampered = 0
    /\ circuit.w = Known(<<1337, 1338, 1339, 1340, 1341, 1342>>)
    /\ failures = {}
    /\ \A i \in 0..(STEPS - 1) : Query(prover.grid, "q_enable", i) = 1

RegexTriples ==
    {<<ST_A, ST_A, 97>>, <<ST_A, ST_B, 97>>, <<ST_B, ST_B, 98>>, <<ST_B, ST_C, 98>>,
     <<ST_C, ST_DONE, 99>>, <<ST_DONE, ST_DONE, EOF>>}

\* C9: in the regex circuit, with one state of the trace of "aaabbbc"
\* altered, the rows at which the validator reports lookup "step" are
\* exactly the rows of 0..19 whose (st_cur, st_nxt, ch) triple is not a
\* transition of the table; no other row is reported.
C9_RegexFailsAtRow ==
    (pc = "verified" /\ circuit.name = "tinyram") =>
        LET g == prover.grid
        IN  /\ LookupRows(failures, "step")
                 = {r \in 0..(MAX_STR_LEN - 1) :
                      <<Query(g, "st", r), Query(g, "st", r + 1), Query(g, "ch", r)>>
                          \notin RegexTriples}
            /\ tampered = 0 =>
                 \A r \in 0..(MAX_STR_LEN - 1) :
                     Query(g, "st", r) = GetOr(circuit.w.sts[1], r, ST_DONE)

C9_Witness ==
    /\ pc = "verified"
    /\ circuit.name = "tinyram"
    /\ tampered = 0
    /\ circuit.w.sts = Known(<<ST_A, ST_A, ST_A, ST_C, ST_B, ST_B, ST_C, ST_DONE>>)
    /\ LookupRows(failures, "step") = {2, 3}

\* the rows of the regions RangeConfig::check has laid out
CheckRows == {prover.regions[i].start : i \in {j \in DOMAIN prover.regions : prover.regions[j].name = "check_range"}}

RECURSIVE Recombine(_, _, _)
Recombine(g, r, i) ==
    IF i = LIMBS THEN 0 ELSE Query(g, limb(i), r) + Pow2(BITS) * Recombine(g, r, i + 1)

C7_LimbOutOfRange ==
    (pc = "verified" /\ circuit.name = "session9") =>
        LET g == prover.grid
        IN  /\ g["range"] = [i \in 1..Pow2(BITS) |-> <<Known(i - 1)>>]
            /\ \A r \in CheckRows : \A i \in 0..(LIMBS - 1) :
                 /\ Query(g, limb(i), r) = Pow2(BITS) =>
                      [kind |-> "lookup", name |-> "lookup_limb", index |-> i + 1, row |-> r]
                          \in failures
                 /\ Query(g, limb(i), r) \in 0..(Pow2(BITS) - 1) =>
                      [kind |-> "lookup", name |-> "lookup_limb", index |-> i + 1, row |-> r]
                          \notin failures

C7_Witness ==
    /\ pc = "verified"
    /\ circuit.name = "session9"
    /\ tampered = 1
    /\ Query(prover.grid, limb(0), 1) = 256
    /\ LookupRows(failures, "lookup_limb") = {1}

\* the rows of the regions ArithmeticChip::eq has laid out
EqRows == {prover.regions[i].start : i \in {j \in DOMAIN prover.regions : prover.regions[j].name = "eq"}}

\* the product of (n - alpha) over n = 1..DIM
RECURSIVE VanishAt(_, _)
VanishAt(alpha, n) == IF n = 0 THEN 1 ELSE FMul(VanishAt(alpha, n - 1), FSub(Fe(n), alpha))

\* C10: in the Sudoku circuit run on a solved puzzle (every row, column
\* and block a permutation of 1..9), whatever the challenge alpha, each of
\* the 27 eq regions compares the reference product of (n - alpha) over
\* n = 1..9 with the product eval_vanish computed over the cells of one
\* row, column or block, the two are equal, and the validator reports no
\* failure: all 27 eq constraints are satisfied.
C10_SudokuVanish ==
    (pc \in {"proved", "verified"} /\ circuit.name = "sudoku" /\ circuit.w \in sudoku_puzzles) =>
        LET g == prover.grid
        IN  /\ ~prover.err
            /\ Cardinality(EqRows) = 3 * DIM
            /\ Query(g, "w0_phase2", 0) = challenge
            /\ \A r \in EqRows :
                 /\ Query(g, "q_arith_phase2", r) = 1
                 /\ Query(g, "w0_phase2", r) = VanishAt(challenge, DIM)
                 /\ Query(g, "w1_phase2", r) = VanishAt(challenge, DIM)
            /\ pc = "verified" => failures = {}

C10_Witness ==
    /\ pc = "verified"
    /\ circuit = [name |-> "sudoku", w |-> sudoku_main]
    /\ challenge = 1337
    /\ Cardinality(EqRows) = 27
    /\ \A r \in EqRows : Query(prover.grid, "w1_phase2", r) = VanishAt(1337, 9)
    /\ VanishAt(1337, 9) # 0
    /\ failures = {}

\* the tuples of the rows of a lookup's table that synthesize has populated
PopulatedTuples(g, lk) ==
    {[i \in DOMAIN lk.table |-> Query(g, lk.table[i], t)] :
        t \in {u \in 0..(Len(g[lk.table[1]]) - 1) :
                 \A i \in DOMAIN lk.table : CellAt(g, lk.table[i], u) # Unassigned}}

\* the witness that the main of a circuit with lookups runs
LookupWitness(name) ==
    CASE name = "tinyram" -> tinyram_main
      [] name = "session9" -> session9_main
      [] name = "session5" -> session5_main

JunkGrid(name, zero, v) ==
    [col \in Columns(name) |->
        IF col = zero THEN <<>> ELSE [i \in 1..3 |-> <<Known(Fe(v + i - 1))>>]]

\* every polynomial of every gate whose selector is 0 at row r is 0 there
GatesOffVanish(name, g, r, chal) ==
    LET gates == Configure(name, g, r, chal).gates
    IN  \A i \in DOMAIN gates :
            gates[i].selector = 0 => \A p \in DOMAIN gates[i].polys : gates[i].polys[p] = 0

SameLayout(name, shape, run) ==
    /\ shape.regions = run.regions
    /\ shape.copies = run.copies
    /\ \A col \in Columns(name) \ InstanceColumns(name) :
         /\ Len(shape.grid[col]) = Len(run.grid[col])
         /\ \A i \in DOMAIN shape.grid[col] :
              LET cell == shape.grid[col][i]
              IN  /\ cell = Unassigned <=> run.grid[col][i] = Unassigned
                  /\ (cell # Unassigned /\ cell # <<Unknown>>) => run.grid[col][i] = cell

CopyCells(copies) == {e[1] : e \in copies} \cup {e[2] : e \in copies}

KnownValues(g, cells) ==
    {CellAt(g, c[1], c[2])[1][1] :
        c \in {x \in cells : CellAt(g, x[1], x[2]) # Unassigned /\ IsKnown(CellAt(g, x[1], x[2])[1])}}

\* The cells joined to a cell of S by a path of copy constraints.
RECURSIVE CopyClass(_, _)
CopyClass(copies, S) ==
    LET T == S \cup {e[2] : e \in {x \in copies : x[1] \in S}}
               \cup {e[1] : e \in {x \in copies : x[2] \in S}}
    IN  IF T = S THEN S ELSE CopyClass(copies, T)

CopiesAgree(ly) ==
    /\ \A e \in ly.copies : Cardinality(KnownValues(ly.grid, {e[1], e[2]})) <= 1
    /\ \A v \in KnownValues(ly.grid, CopyCells(ly.copies)) :
         KnownValues(ly.grid,
             CopyClass(ly.copies, {c \in CopyCells(ly.copies) : KnownValues(ly.grid, {c}) = {v}})) = {v}

\* The witnesses that satisfy their circuit: main's of tiny-ram.rs and of
\* session-9.rs, the solved puzzles of ex-suduko.rs, and every input drawn
\* for the other circuits.
ValidWitness(c) ==
    CASE c.name = "tinyram" -> c.w = tinyram_main
      [] c.name = "session9" -> c.w = session9_main
      [] c.name = "sudoku" -> c.w \in sudoku_puzzles
      [] c.name = "fixed" -> c.w = fixed_main
      [] c.name = "session3" -> c.w = session3_main
      [] c.name = "session7" -> c.w = session7_main
      [] OTHER -> TRUE

\* C5: in every pass over an example circuit with its valid witness (key
\* generation, the first phase, the proving pass), two cells joined by
\* constrain_equal, copy_advice or constrain_instance hold equal values when
\* both are Known, and no class of cells connected by copy constraints
\* holds two different Known values.
C5_CopiesAgree ==
    (pc \in {"phase0", "challenge", "proved", "verified"} /\ tampered = 0 /\ ValidWitness(circuit)) =>
        /\ CopiesAgree(keygen)
        /\ CopiesAgree(prover)

C5_Witness ==
    /\ pc = "proved"
    /\ circuit = [name |-> "session7", w |-> session7_main]
    /\ tampered = 0
    /\ challenge = 5
    /\ <<<<"rlc", 0>>, <<"rlc", 3>>>> \in prover.copies
    /\ CellAt(prover.grid, "rlc", 0) = <<Known(86)>>
    /\ CellAt(prover.grid, "rlc", 3) = <<Known(86)>>
    /\ CellAt(prover.grid, "rlc", 4) # <<Known(86)>>
    /\ CopyClass(prover.copies, {<<"rlc", 0>>}) = {<<"rlc", 0>>, <<"rlc", 3>>, <<"rlc", 5>>}


\* ------------------------------------------------------------------------
\* The row of cells synthesize lays out for row i of the grid: the digit
\* SUDUKO gives, and the claimed solution's digit where SUDUKO is blank.
LaidOutRow(w, i) ==
    [j \in 1..DIM |-> IF w.suduko[i][j] = 0 THEN w.solutation[1][i][j] ELSE w.suduko[i][j]]

HasDuplicate(row) == \E a, b \in DOMAIN row : a # b /\ row[a] = row[b]

\* the product of (row[k] - alpha) over k = 1..n
RECURSIVE RowProduct(_, _, _)
RowProduct(row, alpha, n) ==
    IF n = 0 THEN 1 ELSE FMul(RowProduct(row, alpha, n - 1), FSub(Fe(row[n]), alpha))

\* the challenges at which the product over the row equals the reference
Agreeing(row) == {a \in Challenges : RowProduct(row, a, DIM) = VanishAt(a, DIM)}

\* the row of the k-th eq region (the k-th of the distinct constraints)
EqRow(k) ==
    LET eqs == {j \in DOMAIN prover.regions : prover.regions[j].name = "eq"}
    IN  prover.regions[CHOOSE j \in eqs : Cardinality({x \in eqs : x < j}) = k - 1].start

\* What the check of row i comes to: the alpha cell is the challenge, held
\* by gate eq_challenge; the eq region of the row compares the reference
\* product with the product over the cells laid out; the two agree at no
\* more than 9 challenges, and the eq constraint (gate arith of the
\* second-phase chip) is reported at every other challenge.
RowCheckDiverges(i) ==
    LET row == LaidOutRow(circuit.w, i)
        r == EqRow(i)
    IN  /\ phase1_chip.w0 \notin SecondPhase("sudoku")
        /\ Query(prover.grid, "q_challenge", 0) = 1
        /\ Query(prover.grid, "w0_phase2", 0) = challenge
        /\ Query(prover.grid, "w0_phase2", r) = VanishAt(challenge, DIM)
        /\ Query(prover.grid, "w1_phase2", r) = RowProduct(row, challenge, DIM)
        /\ Cardinality(Agreeing(row)) <= 9
        /\ challenge \notin Agreeing(row) <=>
             [kind |-> "gate", name |-> "arith", index |-> 2, row |-> r] \in failures

\* C11, as stated: a duplicate digit in a row of the claimed solution makes
\* the check of that row diverge from the reference product at all but at
\* most 9 challenges.
C11_DuplicateInSolution ==
    (pc = "verified" /\ tampered = 0 /\ circuit.name = "sudoku") =>
        \A i \in 1..DIM : HasDuplicate(circuit.w.solutation[1][i]) => RowCheckDiverges(i)

\* C11: a duplicate digit in a row of the cells laid out (the digits SUDUKO
\* gives, and the digits of the claimed solution at the blank positions)
\* makes the row's eval_vanish product differ from the reference product
\* at every challenge but at most 9, and the row's eq constraint is
\* reported at those challenges; the alpha cell equals the challenge under
\* the enabled gate eq_challenge, and the solution cells are first-phase.
C11_DuplicateInRow ==
    (pc = "verified" /\ tampered = 0 /\ circuit.name = "sudoku") =>
        \A i \in 1..DIM : HasDuplicate(LaidOutRow(circuit.w, i)) => RowCheckDiverges(i)

C11_Witness ==
    /\ pc = "verified"
    /\ tampered = 0
    /\ circuit = [name |-> "sudoku",
                  w |-> [suduko |-> SUDUKO, solutation |-> Known([SOLUTION EXCEPT ![1][3] = 6])]]
    /\ challenge = 4
    /\ HasDuplicate(LaidOutRow(circuit.w, 1))
    /\ Agreeing(LaidOutRow(circuit.w, 1)) = {1, 2, 3, 5, 6, 7, 8, 9}
    /\ Query(prover.grid, "w1_phase2", EqRow(1)) # VanishAt(4, DIM)
    /\ [kind |-> "gate", name |-> "arith", index |-> 2, row |-> EqRow(1)] \in failures


\* ------------------------------------------------------------------------
\* The cells a pass assigns from the challenge: the rlc cell of each
\* fingerprint row (session-7.rs), the cell of region "challenge"
\* (challenges.rs, ex-suduko.rs).
ChallengeCells(name, ly) ==
    {<<IF name = "session7" THEN "rlc" ELSE "w0_phase2", ly.regions[j].start>> :
        j \in {i \in DOMAIN ly.regions : ly.regions[i].name \in {"fingerprint-row", "challenge"}}}

\* the rlc cell alloc_row assigns for a row `value` in the pass ly
RlcCell(ly, value) ==
    LET out == RLCChip_alloc_row(ly, value)
    IN  CellAt(out.grid, "rlc", LastStart(out))[1]

\* C12: in key generation and in the pass of the first phase get_challenge
\* returns Unknown, not zero, and the cells assigned from it (the rlc cells
\* of session-7.rs, the challenge cell of challenges.rs and ex-suduko.rs)
\* hold Unknown; in the pass after the first phase get_challenge returns
\* the challenge and those cells are Known; in every pass of the prover
\* the rlc cell alloc_row assigns is Known exactly when the challenge and
\* the values of the row are both Known.
C12_ChallengeUnknown ==
    circuit.name \in {"session7", "challenges", "sudoku"} =>
        /\ pc # "configured" =>
             /\ get_challenge(keygen) = Unknown
             /\ \A c \in ChallengeCells(circuit.name, keygen) :
                  CellAt(keygen.grid, c[1], c[2]) = <<Unknown>>
        /\ pc \in {"phase0", "challenge"} =>
             /\ ~prover.err
             /\ get_challenge(prover) = Unknown
             /\ get_challenge(prover) # Known(0)
             /\ ChallengeCells(circuit.name, prover) # {}
             /\ \A c \in ChallengeCells(circuit.name, prover) :
                  CellAt(prover.grid, c[1], c[2]) = <<Unknown>>
        /\ (pc \in {"proved", "verified"} /\ tampered = 0) =>
             /\ get_challenge(prover) = Known(challenge)
             /\ \A c \in ChallengeCells(circuit.name, prover) :
                  /\ CellAt(prover.grid, c[1], c[2]) # Unassigned
                  /\ IsKnown(CellAt(prover.grid, c[1], c[2])[1])
                  /\ circuit.name # "session7" =>
                       CellAt(prover.grid, c[1], c[2]) = <<Known(challenge)>>
                  /\ circuit.name = "session7" =>
                       CellAt(prover.grid, c[1], c[2]) =
                           <<Known(compute_rlc(challenge, circuit.w.assignment[1][c[2] + 1]))>>
        /\ (circuit.name = "session7" /\ pc \in {"phase0", "challenge", "proved", "verified"}) =>
             \A value \in {Unknown, Known(<<1, 2, 3>>)} :
                 IsKnown(RlcCell(prover, value)) <=>
                     (IsKnown(get_challenge(prover)) /\ IsKnown(value))

C12_Witness ==
    /\ pc = "phase0"
    /\ circuit = [name |-> "session7", w |-> session7_main]
    /\ get_challenge(prover) = Unknown
    /\ CellAt(prover.grid, "adv1", 4) = <<Known(51966)>>
    /\ CellAt(prover.grid, "rlc", 4) = <<Unknown>>
    /\ ChallengeCells("session7", prover) = {<<"rlc", r>> : r \in 0..5}


\* ------------------------------------------------------------------------
\* column col of a pass holds cells whose value is still Unknown
NotComputed(ly, col) == \E i \in DOMAIN ly.grid[col] : ly.grid[col][i] = <<Unknown>>

\* the cells of column col of a pass that are assigned are all Known
Computed(ly, col) ==
    \A i \in DOMAIN ly.grid[col] : ly.grid[col][i] # Unassigned => IsKnown(ly.grid[col][i][1])

\* a step in which synthesize has run for the prover
IsPass == prover' # prover /\ tampered' = tampered

\* the pass of the first phase: the first-phase columns are assigned, the
\* second-phase columns are not (of their cells only those assigned a
\* constant hold a value)
IsFirstPass ==
    /\ pc = "keygen" /\ pc' = "phase0"
    /\ prover'.mode = "prove" /\ prover'.phase = 0 /\ ~prover'.err
    /\ \A col \in Columns(circuit.name) \ SecondPhase(circuit.name) : Computed(prover', col)
    /\ \A col \in SecondPhase(circuit.name) : NotComputed(prover', col)

\* the pass of the second phase: it follows the challenge, leaves every
\* first-phase column as the first pass wrote it, and computes the
\* second-phase columns
IsSecondPass ==
    /\ pc = "challenge" /\ pc' = "proved"
    /\ prover.phase = 0 /\ prover'.phase = 1
    /\ challenge \in Challenges /\ prover'.chal = challenge /\ ~prover'.err
    /\ \A col \in Columns(circuit.name) \ SecondPhase(circuit.name) :
         prover'.grid[col] = prover.grid[col]
    /\ \A col \in SecondPhase(circuit.name) :
         /\ NotComputed(prover, col)
         /\ Computed(prover', col)
         /\ prover'.grid[col] # prover.grid[col]
    /\ prover'.regions = prover.regions

Alloc(col) == [call |-> "alloc", name |-> col, cols |-> {col}]

\* challenge_usable_after
AllocChallenge(nm) == [call |-> "challenge", name |-> nm, cols |-> {}]

\* enable_equality
EnableEquality(col) == [call |-> "enable_equality", name |-> col, cols |-> {col}]

\* create_gate, with what its closure queries
CreateGate(nm, queries) == [call |-> "create_gate", name |-> nm, cols |-> queries]

\* lookup and lookup_any, with what the closure queries and the table
\* columns
Lookup(nm, queries) == [call |-> "lookup", name |-> nm, cols |-> queries]

LookupAny(nm, queries) == [call |-> "lookup_any", name |-> nm, cols |-> queries]

adder_configure_calls ==
    <<Alloc("q_enable"), Alloc("advice"),
      CreateGate("step", {"q_enable", "advice"})>>

tinyram_configure_calls ==
    <<Alloc("q_regex"), Alloc("q_match"), Alloc("st"), Alloc("ch"), Alloc("fix_st"),
      Alloc("tbl_st_cur"), Alloc("tbl_st_nxt"), Alloc("tbl_ch"),
      Lookup("step", {"q_regex", "st", "ch", "tbl_st_cur", "tbl_st_nxt", "tbl_ch"}),
      CreateGate("fix state", {"q_match", "st", "fix_st"})>>

session9_configure_calls ==
    <<Alloc("value")>>
    \o [i \in 1..LIMBS |-> Alloc(limb(i - 1))]
    \o <<Alloc("range"),
         Alloc("q_enable"), EnableEquality("value"),
         CreateGate("combine", {"q_enable", "value"} \cup {limb(i - 1) : i \in 1..LIMBS})>>
    \o [i \in 1..LIMBS |-> Lookup("lookup_limb", {"q_enable", limb(i - 1), "range"})]
    \o <<Alloc("rw_q_enable"), Alloc("addr"), Alloc("val_old"), Alloc("val_new"),
         Alloc("rw_counter"), Alloc("is_write"),
         Alloc("delta"), EnableEquality("delta"),
         CreateGate("delta_gate", {"rw_q_enable", "delta", "addr", "rw_counter"})>>

sudoku_configure_calls ==
    <<Alloc("w0"), Alloc("w1"), Alloc("w2"),
      Alloc("c0"), Alloc("c1"), Alloc("c2"), Alloc("cc"), Alloc("cm"),
      EnableEquality("w0"), EnableEquality("w1"), EnableEquality("w2"),
      AllocChallenge("alpha"),
      Alloc("q_arith"),
      CreateGate("arith", {"q_arith", "w0", "w1", "w2", "c0", "c1", "c2", "cm", "cc"}),
      Alloc("w0_phase2"), Alloc("w1_phase2"), Alloc("w2_phase2"),
      EnableEquality("w0_phase2"), EnableEquality("w1_phase2"), EnableEquality("w2_phase2"),
      Alloc("q_arith_phase2"),
      CreateGate("arith", {"q_arith_phase2", "w0_phase2", "w1_phase2", "w2_phase2",
                           "c0", "c1", "c2", "cm", "cc"}),
      Alloc("q_challenge"),
      CreateGate("eq_challenge", {"q_challenge", "w0_phase2"})>>

session5_configure_calls_no_equality ==
    <<Alloc("adv1"), Alloc("adv2"),
      Alloc("idx"), Alloc("arr"), Alloc("flag"),
      Alloc("rom_enable"),
      LookupAny("ROM lookup", {"rom_enable", "adv1", "adv2", "flag", "idx", "arr"})>>

session5_configure_calls ==
    <<Alloc("adv1"), Alloc("adv2"),
      Alloc("idx"), Alloc("arr"), Alloc("flag"),
      Alloc("rom_enable"),
      LookupAny("ROM lookup", {"rom_enable", "adv1", "adv2", "flag", "idx", "arr"}),
      EnableEquality("adv1"), EnableEquality("adv2")>>

chips_configure_calls ==
    <<Alloc("w0"), Alloc("w1"), Alloc("w2"),
      EnableEquality("w0"), EnableEquality("w1"), EnableEquality("w2"),
      Alloc("q_mul"), Alloc("q_add"),
      CreateGate("add", {"q_add", "w0", "w1", "w2"}),
      CreateGate("mul", {"q_mul", "w0", "w1", "w2"})>>

equality_configure_calls ==
    <<Alloc("q_enable"), Alloc("advice"), EnableEquality("advice"),
      CreateGate("vertical-mul", {"q_enable", "advice"})>>

instances_configure_calls ==
    <<Alloc("fib"), Alloc("flag"), Alloc("index"), Alloc("q_fib"), Alloc("instance"),
      EnableEquality("fib"), EnableEquality("instance"), EnableEquality("index"),
      CreateGate("fibonacci", {"q_fib", "fib", "flag", "index"})>>

session7_configure_calls ==
    <<Alloc("adv0"), Alloc("adv1"), Alloc("adv2"),
      Alloc("rlc"), Alloc("q_enable"), AllocChallenge("alpha"),
      EnableEquality("rlc"),
      CreateGate("rlc", {"q_enable", "adv0", "adv1", "adv2", "rlc"})>>

challenges_configure_calls ==
    <<Alloc("w0"), EnableEquality("w0"), AllocChallenge("alpha"),
      Alloc("w0_phase2"), EnableEquality("w0_phase2"),
      Alloc("q_challenge"),
      CreateGate("eq_challenge", {"q_challenge", "w0_phase2"})>>

session3_configure_calls ==
    <<Alloc("advice"), Alloc("fixed"), Alloc("instance"), Alloc("q_xor"),
      Alloc("tbl_in1"), Alloc("tbl_in2"), Alloc("tbl_out"),
      Lookup("xor", {"q_xor", "advice", "tbl_in1", "tbl_in2", "tbl_out"}),
      EnableEquality("advice"), EnableEquality("instance"),
      Alloc("q_mul"), Alloc("q_add"), Alloc("q_fix"),
      CreateGate("fixed", {"q_fix", "advice", "fixed"}),
      CreateGate("vertical-mul", {"q_mul", "advice"}),
      CreateGate("vertical-add", {"q_add", "advice"})>>

fixed_configure_calls_late ==
    <<Alloc("q_mul"), Alloc("advice"), EnableEquality("advice"),
      CreateGate("vertical-mul", {"q_mul", "advice"}),
      Alloc("q_fixed"),
      CreateGate("equal-constant", {"q_fixed", "advice", "fixed"}),
      Alloc("fixed")>>

fixed_configure_calls ==
    <<Alloc("q_mul"), Alloc("advice"), EnableEquality("advice"),
      CreateGate("vertical-mul", {"q_mul", "advice"}),
      Alloc("q_fixed"), Alloc("fixed"),
      CreateGate("equal-constant", {"q_fixed", "advice", "fixed"})>>

ConfigureCalls(name) ==
    CASE name = "adder" -> adder_configure_calls
      [] name = "tinyram" -> tinyram_configure_calls
      [] name = "session9" -> session9_configure_calls
      [] name = "sudoku" -> sudoku_configure_calls
      [] name = "session5" -> session5_configure_calls
      [] name = "chips" -> chips_configure_calls
      [] name = "equality" -> equality_configure_calls
      [] name = "instances" -> instances_configure_calls
      [] name = "session7" -> session7_configure_calls
      [] name = "challenges" -> challenges_configure_calls
      [] name = "fixed" -> fixed_configure_calls
      [] name = "session3" -> session3_configure_calls

Allocations == {"alloc", "challenge", "enable_equality"}

Closures == {"create_gate", "lookup", "lookup_any"}

\* the columns and selectors allocated by the calls before the i-th
AllocatedBefore(calls, i) ==
    {calls[j].name : j \in {k \in 1..(i - 1) : calls[k].call = "alloc"}}

\* the columns equality was enabled on
EqualityColumns(name) ==
    LET calls == ConfigureCalls(name)
    IN  {calls[j].name : j \in {k \in DOMAIN calls : calls[k].call = "enable_equality"}}

\* an allocation call follows a create_gate, lookup or lookup_any call
AllocatesAfterClosure(calls) ==
    \E i, j \in DOMAIN calls :
        i < j /\ calls[i].call \in Closures /\ calls[j].call \in Allocations

\* C14 as stated: during configure of every example circuit all allocation
\* calls (columns, selectors, challenges, enable_equality) happen before the
\* first create_gate, lookup or lookup_any call
C14_AllocationsFirst ==
    ~AllocatesAfterClosure(ConfigureCalls(circuit.name))

\* C14, as the code has it: every column and selector that a gate or a
\* lookup queries, and every column equality is enabled on, was allocated by
\* an earlier call, no column is allocated twice, and the calls allocate
\* exactly the columns the circuit is laid out on; allocations may follow
\* earlier gates and lookups, and the circuits doing so still verify
C14_AllocatedBeforeUse ==
    LET calls == ConfigureCalls(circuit.name)
    IN  /\ \A i \in DOMAIN calls :
            /\ calls[i].call \in Closures \cup {"enable_equality"}
                   => calls[i].cols \subseteq AllocatedBefore(calls, i)
            /\ calls[i].call = "alloc" => calls[i].name \notin AllocatedBefore(calls, i)
        /\ AllocatedBefore(calls, Len(calls) + 1) = Columns(circuit.name)
        /\ pc # "configured" => DOMAIN keygen.grid = AllocatedBefore(calls, Len(calls) + 1)
        /\ (pc = "verified" /\ tampered = 0 /\ ValidWitness(circuit)) => failures = {}

C14_Witness ==
    /\ circuit.name = "fixed"
    /\ circuit.w = fixed_main
    /\ pc = "verified"
    /\ tampered = 0
    /\ failures = {}
    /\ AllocatesAfterClosure(ConfigureCalls("fixed"))
    /\ ConfigureCalls("fixed")[4].call = "create_gate"
    /\ ConfigureCalls("fixed")[5] = Alloc("q_fixed")
    /\ prover.grid["fixed"][11] = <<Known(fixed_constant)>>


\* ------------------------------------------------------------------------
\* The layout the last step has produced: of key generation, or of a pass of
\* the prover (the later steps leave the regions as they are)
Layouts ==
    IF pc = "keygen" THEN {keygen}
    ELSE IF pc \in {"phase0", "proved"} /\ tampered = 0 THEN {prover}
    ELSE {}

\* The absolute rows of a region
RegionRange(rg) == rg.start..(rg.start + rg.rows - 1)

\* The regions opened before the j-th that have a column in common with it
Earlier(ly, j) ==
    {k \in 1..(j - 1) : ly.regions[k].columns \cap ly.regions[j].columns # {}}

Synthesized ==
    IF pc = "configured" THEN {}
    ELSE IF pc = "keygen" THEN {keygen}
    ELSE {keygen, prover}

\* The columns of the cells that constrain_equal, copy_advice and
\* constrain_instance were passed
CopyColumns(ly) == {cell[1] : cell \in CopyCells(ly.copies)}

\* C16: in every example circuit each cell passed to constrain_equal,
\* copy_advice or constrain_instance lies in a column on which configure
\* called enable_equality, so that no copy edge touches a column without
\* equality enabled, in key generation and in every pass of the prover
C16_CopiesEnabled ==
    \A ly \in Synthesized :
        /\ CopyColumns(ly) \subseteq EqualityColumns(circuit.name)
        /\ EqualityColumns(circuit.name) \subseteq Columns(circuit.name)

C16_Witness ==
    /\ circuit.name = "session5"
    /\ pc = "verified"
    /\ tampered = 0
    /\ failures = {}
    /\ prover.copies = {<<<<"adv2", 2>>, <<"adv1", 0>>>>}
    /\ CopyColumns(prover) = {"adv1", "adv2"}
    /\ EqualityColumns("session5") = {"adv1", "adv2"}


\* ------------------------------------------------------------------------
\* The circuit allocating bits, under the same steps
BitInit ==
    /\ \E w \in bits_inputs : circuit = [name |-> "bits", w |-> w]
    /\ pc = "configured"
    /\ keygen = NoLayouter
    /\ prover = NoLayouter
    /\ challenge = 0
    /\ failures = {}
    /\ tampered = 0

BitSpec == BitInit /\ [][Next]_vars

\* the assignments of (col, 0) in the closure of bit, in order
BitWrites(col) ==
    LET ops == ArithmeticChip_bit(phase1_chip, Known(TRUE)).ops
    IN  SelectSeq(ops, LAMBDA op : op.k = "fixed" /\ op.col = col /\ op.off = 0)

FreeCells(ly) ==
    UNION {{<<col, ly.regions[k].start>> : col \in ly.regions[k].columns} :
             k \in {j \in DOMAIN ly.regions :
                      ly.regions[j].rows = 1 /\ Cardinality(ly.regions[j].columns) = 1}}
      \ CopyCells(ly.copies)

\* the values tried in a free cell
FreeValues == {0, 1, 4, 72, P - 1}

\* the assignment that differs in one cell only
WithCell(ly, cell, v) == [ly EXCEPT !.grid[cell[1]] = Put(@, cell[2], <<Known(v)>>)]

\* C18: a free cell does not affect satisfiability: two assignments that
\* differ only in the value of a free cell fail the same gates, lookups and
\* copy constraints (session-5.rs: idx2, the cell of the second "index"
\* region)
C18_FreeCell ==
    (pc \in {"proved", "verified"} /\ ~prover.err) =>
        /\ \A cell \in FreeCells(prover) : \A v \in FreeValues :
              verify(circuit.name, WithCell(prover, cell, v)) = verify(circuit.name, prover)
        /\ circuit.name = "session5" => FreeCells(prover) = {<<"adv1", 1>>}

C18_Witness ==
    /\ circuit.name = "session5"
    /\ circuit.w = session5_main
    /\ pc = "verified"
    /\ tampered = 0
    /\ failures = {}
    /\ FreeCells(prover) = {<<"adv1", 1>>}
    /\ prover.grid["adv1"][2] = <<Known(1)>>
    /\ prover.regions[3] = [name |-> "index", start |-> 1, rows |-> 1, columns |-> {"adv1"}]
    /\ Query(prover.grid, "rom_enable", 1) = 0
    /\ verify("session5", WithCell(prover, <<"adv1", 1>>, 72)) = {}
    /\ verify("session5", WithCell(prover, <<"adv1", 0>>, 72)) # {}


\* ------------------------------------------------------------------------
\* The table "xor-table" of the assignment, as a set of rows
XorTable(g) == TableTuples("session3", g, session3_configure(g, 0).lookups[1])

\* (w0, w1, w2) of lookup "xor" at row r
XorTriple(g, r) == <<Query(g, "advice", r), Query(g, "advice", r + 1), Query(g, "advice", r + 2)>>

RECURSIVE FibSteps(_, _, _)
FibSteps(a, b, n) == IF n = 0 THEN b ELSE FibSteps(b, FAdd(a, b), n - 1)

\* the public inputs of the run
Public(i) == Query(prover.grid, "instance", i)

\* C20 as stated: in the Fibonacci circuit every assignment that satisfies
\* gate fibonacci on rows 0..STEPS-1 and the five instance constraints has
\* its public result (instance row 3) equal to the value n Fibonacci steps
\* from the public start pair (rows 0 and 1), n = row 4 - row 2, whatever
\* flag bits the prover chooses
C20_FibonacciSound ==
    (circuit.name = "instances" /\ pc = "verified" /\ failures = {}) =>
        Public(3) = FibSteps(Public(0), Public(1), FSub(Public(4), Public(2)))

\* an accepted run whose result is not the value n steps from the start pair
C20_Witness ==
    /\ circuit.name = "instances"
    /\ circuit.w = instances_prover({1, 3}, 1, 2)
    /\ pc = "verified"
    /\ tampered = 0
    /\ failures = {}
    /\ <<Public(0), Public(1), Public(2), Public(3), Public(4)>> = <<1, 2, 0, 6, 2>>
    /\ <<Query(prover.grid, "flag", 0), Query(prover.grid, "flag", 1),
         Query(prover.grid, "flag", 2)>> = <<1, 0, 1>>
    /\ FibSteps(1, 2, 2) = 5

\* C20 for the flags main sets: with the flags set on the first n rows
\* only, the result is the value n steps from the start pair
C20_MainSound ==
    (/\ circuit.name = "instances" /\ pc = "verified" /\ failures = {}
     /\ \A r \in 0..(fib_STEPS - 2) :
           Query(prover.grid, "flag", r) = 0 => Query(prover.grid, "flag", r + 1) = 0)
        => Public(3) = FibSteps(Public(0), Public(1), FSub(Public(4), Public(2)))


\* ------------------------------------------------------------------------
\* challenges.rs: the cell ChallengeChip::challenge returns

\* the cell region "challenge" assigned in the layouter ly
ChallengeCell(ly) == CellAt(ly.grid, "w0_phase2", 0)

\* C22: in challenges.rs the advice cell returned by ChallengeChip::challenge
\* is constrained to equal the challenge: the selector q_challenge is
\* enabled on the row of the cell, and no assignment the validator accepts
\* holds another value than the challenge in that cell.
C22_ChallengeConstrained ==
    (circuit.name = "challenges" /\ pc = "verified") =>
        /\ Query(prover.grid, "q_challenge", 0) = 1
        /\ failures = {} => ChallengeCell(prover) = <<Known(challenge)>>

\* the validator accepted an assignment whose cell is not the challenge
C22_Witness ==
    /\ circuit.name = "challenges"
    /\ pc = "verified"
    /\ challenge = 3
    /\ tampered = 1
    /\ ChallengeCell(prover) = <<Known(7)>>
    /\ Query(prover.grid, "q_challenge", 0) = 0
    /\ failures = {}

\* C22, what the code does: ChallengeChip::challenge never enables the
\* selector, in key generation or in a pass of the prover, so the gate
\* "eq_challenge" is reported for no assignment; the honest pass does write
\* the challenge.
C22_SelectorNeverEnabled ==
    circuit.name = "challenges" =>
        /\ pc # "configured" => Query(keygen.grid, "q_challenge", 0) = 0
        /\ pc \in {"phase0", "challenge", "proved", "verified"} =>
             Query(prover.grid, "q_challenge", 0) = 0
        /\ (pc \in {"proved", "verified"} /\ tampered = 0) =>
             ChallengeCell(prover) = <<Known(challenge)>>
        /\ pc = "verified" => failures = {}


\* ------------------------------------------------------------------------
\* ArithmeticChip::bit: which values the bit row accepts

\* the validator reports nothing on row r
AcceptedRow(r) == \A f \in failures : f.row # r

\* the value the bit region on row r holds in both w0 and w1, or -1
BitRowValue(ly, r) ==
    IF CellAt(ly.grid, "w0", r) = CellAt(ly.grid, "w1", r)
    THEN Query(ly.grid, "w0", r)
    ELSE -1

\* C23: ArithmeticChip::bit allocates a bit-constrained variable: with the
\* coefficients its region holds, gate "arith" on the bit row and the copy
\* constraint w0 = w1 are satisfied if and only if the value assigned is 0
\* or 1.
C23_BitConstrained ==
    (circuit.name = "bits" /\ pc = "verified") =>
        \A k \in DOMAIN prover.regions :
            AcceptedRow(k - 1) <=> BitRowValue(prover, k - 1) \in {0, 1}

\* bit(Value::known(true)) alone: the honest assignment is rejected
C23_Witness ==
    /\ circuit = [name |-> "bits", w |-> <<Known(TRUE)>>]
    /\ pc = "verified"
    /\ tampered = 0
    /\ BitRowValue(prover, 0) = 1
    /\ Query(prover.grid, "c0", 0) = 0 /\ Query(prover.grid, "c1", 0) = 0
    /\ Query(prover.grid, "cm", 0) = 1
    /\ ~AcceptedRow(0)

\* C23, what the code does: the region holds c0 = c1 = c2 = cc = 0 and
\* cm = 1, the gate reads w0 * w1, and the row is accepted if and only if
\* the value is 0.
C23_OnlyZero ==
    (circuit.name = "bits" /\ pc = "verified") =>
        \A k \in DOMAIN prover.regions :
            /\ ArithmeticChip_configure(phase1_chip, prover.grid, k - 1).polys[1]
                   = FMul(Query(prover.grid, "w0", k - 1), Query(prover.grid, "w1", k - 1))
            /\ AcceptedRow(k - 1) <=> BitRowValue(prover, k - 1) = 0


\* ------------------------------------------------------------------------
\* session-9.rs: does the read-write table come out sorted?  The cells addr
\* and rw_counter are advice cells of region "state"; the candidate
\* assignments below replace the pair of one row.

\* read-write tables of main's shape: main's, and main's with one row moved
rw_tables ==
    {session9_main,
     Known([session9_main[1] EXCEPT ![2].addr = 1, ![2].rw_counter = 0]),
     Known([session9_main[1] EXCEPT ![2].addr = 1, ![2].rw_counter = 3]),
     Known([session9_main[1] EXCEPT ![4].addr = 0, ![4].rw_counter = 3])}

RwInit ==
    /\ \E w \in rw_tables : circuit = [name |-> "session9", w |-> w]
    /\ pc = "configured"
    /\ keygen = NoLayouter
    /\ prover = NoLayouter
    /\ challenge = 0
    /\ failures = {}
    /\ tampered = 0

\* the values a candidate assignment puts in an addr or an rw_counter cell:
\* values of a u32, and the first values above u32
ForgeAddrs == {0, 1}

ForgeCounters == {0, 1, Pow2(HalfBits), Pow2(HalfBits) + 1}

\* a candidate assignment: the addr and rw_counter cells of one row of the
\* read-write table hold another pair
Forge ==
    /\ pc = "proved"
    /\ tampered < MaxTamper
    /\ ~prover.err
    /\ \E i \in 0..(ROWS - 1) : \E a \in ForgeAddrs : \E c \in ForgeCounters :
         prover' = [prover EXCEPT !.grid["addr"] = Put(@, i, <<Known(a)>>),
                                  !.grid["rw_counter"] = Put(@, i, <<Known(c)>>)]
    /\ tampered' = tampered + 1
    /\ UNCHANGED <<circuit, pc, keygen, challenge, failures>>

RwNext ==
    \/ Keygen
    \/ FirstPhase
    \/ Forge
    \/ Verify

RwSpec == RwInit /\ [][RwNext]_vars

\* (addr, rw_counter) of row i of the read-write table in the grid g
RwPair(g, i) == <<Query(g, "addr", i), Query(g, "rw_counter", i)>>

\* non-decreasing lexicographic order of pairs
LexLe(x, y) == x[1] < y[1] \/ (x[1] = y[1] /\ x[2] <= y[2])

RwSorted(g) == \A i \in 0..(ROWS - 2) : LexLe(RwPair(g, i), RwPair(g, i + 1))

\* the validator reports neither delta_gate nor a range check of a delta
RwAccepted ==
    ~\E f \in failures : f.name \in {"delta_gate", "combine", "lookup_limb"} \/ f.kind = "copy"

\* C25: in session-9, for every assignment that satisfies "delta_gate" on
\* rows 0..ROWS-2 and the range check (LIMBS limbs of BITS bits) of every
\* delta cell, the rows of the read-write table are sorted in
\* non-decreasing lexicographic order of (addr, rw_counter).
C25_Sorted ==
    (circuit.name = "session9" /\ pc = "verified" /\ RwAccepted) => RwSorted(prover.grid)

\* an accepted assignment whose third row (0, 2^32 + 1) follows (1, 0): the
\* key of the row is the key of the honest row (1, 1)
C25_Witness ==
    /\ circuit = [name |-> "session9",
                  w |-> Known([session9_main[1] EXCEPT ![2].addr = 1, ![2].rw_counter = 0])]
    /\ pc = "verified"
    /\ tampered = 1
    /\ RwPair(prover.grid, 1) = <<1, 0>>
    /\ RwPair(prover.grid, 2) = <<0, Pow2(HalfBits) + 1>>
    /\ \A i \in 0..(ROWS - 2) : Query(prover.grid, "rw_q_enable", i) = 1
    /\ failures = {}
    /\ ~RwSorted(prover.grid)

\* C25, what the code does enforce: in an accepted assignment the keys
\* addr * 2^32 + rw_counter of consecutive rows, as field elements, differ
\* by the delta cell, which is below 2^64; when addr and rw_counter are
\* both below 2^32 in every row the rows are sorted.  For the honest
\* witness the delta is the wrapping difference of the keys, and a pair of
\* rows out of order makes delta_gate fail on its row.
C25_KeysSorted ==
    (circuit.name = "session9" /\ pc = "verified") =>
        LET g == prover.grid
            key(i) == FAdd(FMul(Fe(Pow2(HalfBits)), Query(g, "addr", i)), Query(g, "rw_counter", i))
            small == \A i \in 0..(ROWS - 1) :
                         RwPair(g, i)[1] < Pow2(HalfBits) /\ RwPair(g, i)[2] < Pow2(HalfBits)
        IN  /\ RwAccepted =>
                 /\ \A i \in 0..(ROWS - 2) :
                        /\ Query(g, "delta", i) < Pow2(KeyBits)
                        /\ key(i + 1) = FAdd(key(i), Query(g, "delta", i))
                 /\ small => RwSorted(g)
            /\ tampered = 0 =>
                 \A i \in 0..(ROWS - 2) :
                     /\ Query(g, "delta", i)
                            = wrapping_sub(RwRow_key(circuit.w[1][i + 2]), RwRow_key(circuit.w[1][i + 1]))
                     /\ ~LexLe(RwPair(g, i), RwPair(g, i + 1)) <=>
                            [kind |-> "gate", name |-> "delta_gate", index |-> 2, row |-> i]
                                \in failures


\* ------------------------------------------------------------------------
\* session-5.rs: what "ROM lookup" accepts

\* the rows on which RomChip::get enabled the lookup
RomRows(g) == {r \in Rows(g, {}) : Query(g, "rom_enable", r) = 1}

\* "ROM lookup" is not reported on row r
RomAccepted(r) ==
    [kind |-> "lookup", name |-> "ROM lookup", index |-> 1, row |-> r] \notin failures

\* C26: in session-5, for every assignment satisfying "ROM lookup" on a row
\* where rom_enable is set, the input cell holds an index i with
\* 0 <= i < MAX_MEMORY and the output cell holds the value of column arr on
\* the ROM row whose idx is i; the padding row (flag 0, idx 0, arr 0) at
\* offset MAX_MEMORY and the unassigned rows match only rows where
\* rom_enable is 0.
C26_RomLookup ==
    (circuit.name = "session5" /\ pc = "verified") =>
        LET g == prover.grid
            input(r) == Query(g, RomChip_input, r)
            output(r) == Query(g, RomChip_output, r)
            lk(r) == session5_configure(g, r).lookups[1]
            row(t) == <<Query(g, "flag", t), Query(g, "idx", t), Query(g, "arr", t)>>
        IN  /\ RomRows(g) = {2}
            /\ \A i \in 0..(MAX_MEMORY - 1) :
                   row(i) = <<1, i, circuit.w[1][i + 1]>>
            /\ CellAt(g, "flag", MAX_MEMORY) = <<Known(0)>>
            /\ CellAt(g, "idx", MAX_MEMORY) = <<Known(0)>>
            /\ CellAt(g, "arr", MAX_MEMORY) = <<Known(0)>>
            /\ \A r \in RomRows(g) :
                   RomAccepted(r) <=>
                       /\ input(r) \in 0..(MAX_MEMORY - 1)
                       /\ output(r) = Query(g, "arr", input(r))
            /\ \A t \in Rows(g, {}) \ 0..(MAX_MEMORY - 1) :
                   /\ row(t) = <<0, 0, 0>>
                   /\ \A r \in Rows(g, {}) :
                          lk(r).inputs = row(t) <=> Query(g, "rom_enable", r) = 0
            /\ \A r \in Rows(g, {}) \ RomRows(g) : RomAccepted(r)

\* a candidate assignment reading the last cell of "Hello"
C26_Witness ==
    /\ circuit = [name |-> "session5", w |-> session5_main]
    /\ pc = "verified"
    /\ tampered = 2
    /\ Query(prover.grid, RomChip_input, 2) = 4
    /\ Query(prover.grid, RomChip_output, 2) = 111
    /\ Query(prover.grid, "arr", 4) = 111
    /\ RomAccepted(2)


\* ------------------------------------------------------------------------
\* session-7.rs: the random linear combination as a fingerprint of a row

\* the advice tuple of row r in the grid g
RlcTuple(g, r) == <<Query(g, "adv0", r), Query(g, "adv1", r), Query(g, "adv2", r)>>

\* advs[0] + c * advs[1] + ... + c^(N-1) * advs[N-1], term by term from
\* term i on, power = c^(i-1)
RECURSIVE RlcPolynomial(_, _, _, _)
RlcPolynomial(c, advs, i, power) ==
    IF i > RLC_N THEN 0
    ELSE FAdd(FMul(power, advs[i]), RlcPolynomial(c, advs, i + 1, FMul(power, c)))

\* the challenges, of those the transcript may produce, under which two
\* tuples have the same rlc
Collisions(a, b) == {c \in Challenges : compute_rlc(c, a) = compute_rlc(c, b)}

\* C27: compute_rlc(c, advs) is advs[0] + c * advs[1] + ... + c^(N-1) *
\* advs[N-1], the polynomial gate "rlc" enforces on the rlc cell; two rows
\* allocated by alloc_row with equal tuples get equal rlc values for every
\* challenge, and the constrain_equal pairs (0,3), (0,5), (1,2) hold for
\* main's assignment; two rows with different tuples get equal rlc values
\* for at most N-1 challenges.
C27_RlcFingerprint ==
    (circuit.name = "session7" /\ pc = "verified") =>
        LET g == prover.grid
            rows == circuit.w.assignment[1]
            rlc(r) == Query(g, "rlc", r)
        IN  /\ Len(ROW_EQUALITY) = 3
            /\ ROW_EQUALITY = <<<<0, 3>>, <<0, 5>>, <<1, 2>>>>
            /\ \A r \in 0..(Len(rows) - 1) :
                   /\ RlcTuple(g, r) = rows[r + 1]
                   /\ Len(rows[r + 1]) = RLC_N
                   /\ compute_rlc(challenge, rows[r + 1]) = RlcPolynomial(challenge, rows[r + 1], 1, 1)
                   /\ tampered = 0 => rlc(r) = compute_rlc(challenge, rows[r + 1])
                   /\ RLCChip_rlc(1, rlc(r), RlcTuple(g, r), challenge) = 0
                          <=> rlc(r) = RlcPolynomial(challenge, rows[r + 1], 1, 1)
                   /\ [kind |-> "gate", name |-> "rlc", index |-> 1, row |-> r] \in failures
                          <=> rlc(r) # RlcPolynomial(challenge, rows[r + 1], 1, 1)
            /\ \A i, j \in DOMAIN rows :
                   /\ rows[i] = rows[j] =>
                          /\ Collisions(rows[i], rows[j]) = Challenges
                          /\ tampered = 0 => rlc(i - 1) = rlc(j - 1)
                   /\ rows[i] # rows[j] =>
                          /\ Cardinality(Collisions(rows[i], rows[j])) <= RLC_N - 1
                          /\ tampered = 0 =>
                                 (rlc(i - 1) = rlc(j - 1) <=> challenge \in Collisions(rows[i], rows[j]))
            /\ (tampered = 0 /\ circuit.w = session7_main) => failures = {}
            /\ tampered = 0 =>
                   \A k \in DOMAIN ROW_EQUALITY :
                       LET i == ROW_EQUALITY[k][1]
                           j == ROW_EQUALITY[k][2]
                       IN  [kind |-> "copy", name |-> "rlc", index |-> 0, row |-> i] \in failures
                               <=> \E jj \in {ROW_EQUALITY[m][2] : m \in {n \in DOMAIN ROW_EQUALITY : ROW_EQUALITY[n][1] = i}} :
                                       challenge \notin Collisions(rows[i + 1], rows[jj + 1])

\* rows 0 and 3 hold different tuples and the challenge 2 is one of the two
\* under which their rlc values agree: the assignment is accepted
C27_Witness ==
    /\ circuit.name = "session7"
    /\ pc = "verified"
    /\ tampered = 0
    /\ challenge = 2
    /\ RlcTuple(prover.grid, 0) = <<1, 2, 3>>
    /\ RlcTuple(prover.grid, 3) = <<3, P - 1, 4>>
    /\ Collisions(<<1, 2, 3>>, <<3, P - 1, 4>>) = {1, 2}
    /\ Query(prover.grid, "rlc", 0) = 17
    /\ Query(prover.grid, "rlc", 3) = 17
    /\ failures = {}


\* ------------------------------------------------------------------------
\* conditional-poseidon.rs under the same steps.  The table is advice: a
\* candidate assignment may hold, for one operation, other rows than
\* populate wrote.
HashInit ==
    /\ \E w \in poseidon_inputs : circuit = [name |-> "poseidon", w |-> w]
    /\ pc = "configured"
    /\ keygen = NoLayouter
    /\ prover = NoLayouter
    /\ challenge = 0
    /\ failures = {}
    /\ tampered = 0

\* the first row of operation op in the table
OpRow(op) == 1 + (op * (ROUNDS + 1))

\* the states of an operation from round r on, st being the state before
\* round r; the last element is the output
RECURSIVE StatesFrom(_, _)
StatesFrom(st, r) ==
    IF r = ROUNDS THEN <<st>>
    ELSE LET next == poseidon_round(poseidon_matrix, poseidon_round_constants[r + 1], st)
         IN  IF next = next THEN <<st>> \o StatesFrom(next, r + 1) ELSE <<>>

\* the state and the inputs a candidate assignment may hold from a round
\* on, and the rounds it may do so from
ForgedStates == {<<1, 2, 3>>}

ForgedInputs == {<<1, 1>>, <<9, 9>>}

ForgedRounds == {1, 2}

\* a candidate assignment: the rows from..ROUNDS of one operation of the
\* table hold the rounds applied to another state, and another input
ForgeTable ==
    /\ pc = "proved"
    /\ tampered < MaxTamper
    /\ ~prover.err
    /\ \E op \in {0, MAX_OPS_POSEIDON - 1} : \E from \in ForgedRounds :
       \E st \in ForgedStates : \E inp \in ForgedInputs :
         LET states == [i \in 1..(from - 1) |-> <<0, 0, 0>>] \o StatesFrom(st, from)
             cells(col, f(_)) ==
                 [i \in DOMAIN prover.grid[col] |->
                     IF i - 1 \in (OpRow(op) + from)..(OpRow(op) + ROUNDS)
                     THEN <<Known(f(i - 1 - OpRow(op)))>> ELSE prover.grid[col][i]]
         IN  prover' = [prover EXCEPT
                          !.grid["cols0"] = cells("cols0", LAMBDA r : states[r][1]),
                          !.grid["cols1"] = cells("cols1", LAMBDA r : states[r][2]),
                          !.grid["cols2"] = cells("cols2", LAMBDA r : states[r][3]),
                          !.grid["inp1"] = cells("inp1", LAMBDA r : inp[1]),
                          !.grid["inp2"] = cells("inp2", LAMBDA r : inp[2])]
    /\ tampered' = tampered + 1
    /\ UNCHANGED <<circuit, pc, keygen, challenge, failures>>

HashNext ==
    \/ Keygen
    \/ FirstPhase
    \/ Tamper
    \/ ForgeTable
    \/ Verify

HashSpec == HashInit /\ [][HashNext]_vars


\* the rows of the table that are flagged flag_final
FinalRows(g) == {t \in 0..(Len(g["flag_final"]) - 1) : Query(g, "flag_final", t) = 1}

\* the validator reports no gate of the table
TableAccepted == ~\E f \in failures : f.name \in {"start", "round"}

\* the state held in row t
ColsAt(g, t) == <<Query(g, "cols0", t), Query(g, "cols1", t), Query(g, "cols2", t)>>

\* C21: in the table PoseidonTable::populate writes, for each of the
\* MAX_OPS_POSEIDON operations and every round r in 0..ROUNDS-1 the row
\* holding the state before round r has flag_round = 1, so that gate
\* "round" forces the next row to hold poseidon_round of the state and the
\* same inp1, inp2; consequently in every assignment satisfying the gates
\* each flag_final row has cols[0] = hash(inp1, inp2).
C21_RoundsEnforced ==
    (circuit.name = "poseidon" /\ pc = "verified") =>
        /\ \A op \in 0..(MAX_OPS_POSEIDON - 1) : \A r \in 0..(ROUNDS - 1) :
               Query(prover.grid, "flag_round", OpRow(op) + r) = 1
        /\ TableAccepted =>
               \A t \in FinalRows(prover.grid) :
                   Query(prover.grid, "cols0", t)
                       = PoseidonTable_hash(Query(prover.grid, "inp1", t), Query(prover.grid, "inp2", t))

\* an accepted assignment whose last operation leaves round 0 unapplied:
\* its output row reads inp1 = inp2 = 1 and another cols[0] than hash(1, 1)
C21_Witness ==
    /\ circuit = [name |-> "poseidon", w |-> poseidon_main]
    /\ pc = "verified"
    /\ tampered = 1
    /\ failures = {}
    /\ LET t == OpRow(MAX_OPS_POSEIDON - 1)
       IN  /\ Query(prover.grid, "flag_start", t) = 1
           /\ Query(prover.grid, "flag_round", t) = 0
           /\ ColsAt(prover.grid, t) = <<0, 0, 0>>
           /\ ColsAt(prover.grid, t + 1) = <<1, 2, 3>>
           /\ Query(prover.grid, "flag_final", t + ROUNDS) = 1
           /\ Query(prover.grid, "inp1", t + ROUNDS) = 1
           /\ Query(prover.grid, "inp2", t + ROUNDS) = 1
           /\ Query(prover.grid, "cols0", t + ROUNDS) # PoseidonTable_hash(1, 1)
           /\ Query(prover.grid, "cols0", OpRow(0) + ROUNDS) = PoseidonTable_hash(1, 1)

\* C21, what the code does: populate flags the row of round r with
\* flag_start for r = 0 and with flag_round for r > 0 only, so that nothing
\* links the row of round 0 to the row after it.  The table populate writes
\* holds hash(inp1, inp2) in every flag_final row; an accepted assignment
\* holds there the rounds 1..ROUNDS-1 applied to whatever state the row of
\* round 1 holds, with the inputs of that row; a row of a later round that
\* does not follow from its predecessor is reported by gate "round".
C21_RoundsFromOne ==
    (circuit.name = "poseidon" /\ pc = "verified") =>
        LET g == prover.grid
        IN  /\ FinalRows(g) = {OpRow(op) + ROUNDS : op \in 0..(MAX_OPS_POSEIDON - 1)}
            /\ \A op \in 0..(MAX_OPS_POSEIDON - 1) : \A r \in 0..(ROUNDS - 1) :
                   /\ Query(g, "flag_start", OpRow(op) + r) = (IF r = 0 THEN 1 ELSE 0)
                   /\ Query(g, "flag_round", OpRow(op) + r) = (IF r > 0 THEN 1 ELSE 0)
            /\ tampered = 0 =>
                   /\ TableAccepted
                   /\ \A t \in FinalRows(g) :
                          Query(g, "cols0", t) = PoseidonTable_hash(Query(g, "inp1", t), Query(g, "inp2", t))
            /\ \A op \in 0..(MAX_OPS_POSEIDON - 1) :
                   LET t == OpRow(op)
                       chained == /\ ColsAt(g, t + ROUNDS) = poseidon_rounds(ColsAt(g, t + 1), 1)
                                  /\ \A r \in 1..(ROUNDS - 1) :
                                         /\ ColsAt(g, t + r + 1)
                                                = poseidon_round(poseidon_matrix,
                                                      poseidon_round_constants[r + 1], ColsAt(g, t + r))
                                         /\ Query(g, "inp1", t + r + 1) = Query(g, "inp1", t + r)
                                         /\ Query(g, "inp2", t + r + 1) = Query(g, "inp2", t + r)
                   IN  chained <=> ~\E f \in failures : f.name = "round" /\ f.row \in t..(t + ROUNDS)


\* the row of the region PoseidonChip::hash assigned, and whether the
\* validator reports gate "bit" or "poseidon_lookup" on it
HashRow == 0

HashAccepted == ~\E f \in failures : f.row = HashRow /\ f.name \in {"bit", "poseidon_lookup"}

\* (in1, in2, out) of the hash row is (inp1, inp2, cols[0]) of a flag_final
\* row of the table
InTable(g) ==
    \E t \in FinalRows(g) :
        /\ Query(g, "in1", HashRow) = Query(g, "inp1", t)
        /\ Query(g, "in2", HashRow) = Query(g, "inp2", t)
        /\ Query(g, "out", HashRow) = Query(g, "cols0", t)

\* C24: PoseidonChip::hash is a conditional hash: in every assignment that
\* satisfies gate "bit" and "poseidon_lookup" on a hash row, on is 0 or 1;
\* when on = 1 the tuple (in1, in2, out) equals (inp1, inp2, cols[0]) of a
\* flag_final row of the table, and when on = 0 the out cell is 0.
C24_ConditionalHash ==
    (circuit.name = "poseidon" /\ pc = "verified" /\ HashAccepted) =>
        /\ Query(prover.grid, "sel", HashRow) = 1
        /\ Query(prover.grid, "on", HashRow) \in {0, 1}
        /\ Query(prover.grid, "on", HashRow) = 1 => InTable(prover.grid)
        /\ Query(prover.grid, "on", HashRow) = 0 => Query(prover.grid, "out", HashRow) = 0

\* hash switched off and another out cell than 0: accepted
C24_Witness ==
    /\ circuit = [name |-> "poseidon", w |-> [on |-> 0, in1 |-> 1, in2 |-> 1]]
    /\ pc = "verified"
    /\ tampered = 1
    /\ Query(prover.grid, "sel", HashRow) = 1
    /\ CellAt(prover.grid, "on", HashRow) = <<Known(0)>>
    /\ CellAt(prover.grid, "out", HashRow) = <<Known(7)>>
    /\ failures = {}

\* C24, what the code does: with on = 0 every looked-up expression is
\* multiplied by zero and matches the zero row of the table whatever the
\* out cell holds.  The hash row is accepted exactly when on = 0, or on = 1
\* and (in1, in2, out) is in a flag_final row; the value hash itself
\* assigns to out is on * hash(in1, in2).
C24_OutFreeWhenOff ==
    (circuit.name = "poseidon" /\ pc = "verified") =>
        LET g == prover.grid
            on == Query(g, "on", HashRow)
        IN  /\ Query(g, "sel", HashRow) = 1
            /\ \A t \in Rows(g, {}) \ {HashRow} : Query(g, "sel", t) = 0
            /\ <<Query(g, "flag_final", 0), Query(g, "inp1", 0), Query(g, "inp2", 0),
                 Query(g, "cols0", 0)>> = <<0, 0, 0, 0>>
            /\ HashAccepted <=> (on = 0 \/ (on = 1 /\ InTable(g)))
            /\ tampered = 0 =>
                   Query(g, "out", HashRow)
                       = FMul(circuit.w.on, PoseidonTable_hash(circuit.w.in1, circuit.w.in2))

====
